---- MODULE Spec2Model ----
(***************************************************************************)
(* The long-running job state layer of the CodeWhisperer models file:      *)
(* CodeScanState (security scan, 3 states) and TransformByQState (code     *)
(* transformation, 6 states plus metadata), the two module-level           *)
(* singletons codeScanState and transformByQState, and the flows that      *)
(* drive them (UI commands and remote-operation drivers).                  *)
(*                                                                         *)
(* Each object is a record of its private fields.  Each method is an       *)
(* operator from the object (this) and its arguments to the object after   *)
(* the call, or to the value returned.  Each action is one call of one     *)
(* method on one of the singletons.                                        *)
(***************************************************************************)
EXTENDS Naturals, FiniteSets, Sequences, TLC

VARIABLES
    codeScanState,      \* the exported singleton CodeScanState
    transformByQState,  \* the exported singleton TransformByQState
    scanPc,             \* per scan flow: "idle" | "checked" | "inflight"
    scanPolls,          \* per scan flow: whether its driver checks isCancelling()
    scanOutcome,        \* per scan flow: what its awaiting caller received
    transformOutcome,   \* what the caller awaiting the transform job that ended
                        \* last received
    transformPc,        \* per transform flow: "idle" | "checked" | "inflight" | "done"
    last,               \* history: the last method call and what it returned
    lastScanCall,       \* history: the last setTo* called on codeScanState
    lastTransformCall,  \* history: the last setTo* called on transformByQState
    transformMutated,   \* history: some setter was called on transformByQState
    reviewStatus,       \* the review status of the transformation, kept outside
                        \* the controller
    deleteCert,         \* per invocation of deleteCertCommand: its progress
    suggestions,        \* the CodeSuggestionsState instance
    sugCalls,           \* per caller: its call on the CodeSuggestionsState instance
    samDebug,           \* a SAM debug configuration, the registered templates and
                        \* the last lookup made on them
    scanStopPc,         \* a stop command that suspends after its isRunning()
                        \* check: "idle" | "checked"
    sugHistory          \* history: the value suggestions started with, and whether
                        \* an odd number of toggleSuggestions() calls completed

flows == <<scanPc, scanPolls, scanOutcome, transformPc, transformOutcome>>
vars == <<codeScanState, transformByQState, scanPc, scanPolls, scanOutcome, transformOutcome,
          transformPc, last, lastScanCall, lastTransformCall, transformMutated,
          reviewStatus, deleteCert, suggestions, sugCalls, samDebug, scanStopPc,
          sugHistory>>

\* The state of the other parts of the extension, which no call on the two
\* job controllers touches, and of the stop command that suspends, which
\* the flows that keep the discipline do not have.
elsewhere == <<deleteCert, suggestions, sugCalls, samDebug, scanStopPc, sugHistory>>

(***************************************************************************)
(* Bounds of the model.                                                    *)
(***************************************************************************)
NumFlows == 2

Flows == 1..NumFlows

\* The arguments the metadata setters are called with.
Names == {"", "proj"}
Paths == {"", "/ws/proj"}
JobIds == {"", "job-123"}
Statuses == {"", "TRANSFORMING"}
Reasons == {"", "upload rejected"}

\* What a switch statement that matches no case returns.
Undefined == "undefined"

(***************************************************************************)
(* enum CodeScanStatus (a numeric enum)                                    *)
(***************************************************************************)
CodeScanStatus_NotStarted == 0
CodeScanStatus_Running == 1
CodeScanStatus_Cancelling == 2

CodeScanStatus ==
    {CodeScanStatus_NotStarted, CodeScanStatus_Running, CodeScanStatus_Cancelling}

(***************************************************************************)
(* class CodeScanState                                                     *)
(***************************************************************************)
CodeScanState_new == [codeScanState |-> CodeScanStatus_NotStarted]

\* mutant: "not started" taken to mean "not running"
CodeScanState_isNotStarted_notRunning(this) ==
    this.codeScanState # CodeScanStatus_Running

CodeScanState_isNotStarted(this) == this.codeScanState = CodeScanStatus_NotStarted

CodeScanState_isRunning(this) == this.codeScanState = CodeScanStatus_Running

\* mutant: the predicate compares with the wrong enumerant
CodeScanState_isCancelling_wrongState(this) ==
    this.codeScanState = CodeScanStatus_NotStarted

CodeScanState_isCancelling(this) == this.codeScanState = CodeScanStatus_Cancelling

\* mutant: a cancel request survives the reset
CodeScanState_setToNotStarted_keepsCancelling(this) ==
    IF this.codeScanState = CodeScanStatus_Cancelling
    THEN this
    ELSE [this EXCEPT !.codeScanState = CodeScanStatus_NotStarted]

CodeScanState_setToNotStarted(this) ==
    [this EXCEPT !.codeScanState = CodeScanStatus_NotStarted]

\* mutant: the cancel request resets the controller at once
CodeScanState_setToCancelling_resets(this) ==
    [this EXCEPT !.codeScanState = CodeScanStatus_NotStarted]

CodeScanState_setToCancelling(this) ==
    [this EXCEPT !.codeScanState = CodeScanStatus_Cancelling]

\* mutant: the start transition is guarded by the pre-state
CodeScanState_setToRunning_guarded(this) ==
    IF this.codeScanState = CodeScanStatus_NotStarted
    THEN [this EXCEPT !.codeScanState = CodeScanStatus_Running]
    ELSE this

CodeScanState_setToRunning(this) ==
    [this EXCEPT !.codeScanState = CodeScanStatus_Running]

\* mutant: the Cancelling case is missing from the switch
CodeScanState_getPrefixTextForButton_noCancelling(this) ==
    CASE this.codeScanState = CodeScanStatus_NotStarted -> "Run"
      [] this.codeScanState = CodeScanStatus_Running -> "Stop"
      [] OTHER -> Undefined

CodeScanState_getPrefixTextForButton(this) ==
    CASE this.codeScanState = CodeScanStatus_NotStarted -> "Run"
      [] this.codeScanState = CodeScanStatus_Running -> "Stop"
      [] this.codeScanState = CodeScanStatus_Cancelling -> "Stopping"
      [] OTHER -> Undefined

\* An icon is represented by the identifier getIcon is called with.
CodeScanState_getIconForButton(this) ==
    CASE this.codeScanState = CodeScanStatus_NotStarted -> "vscode-debug-alt-small"
      [] this.codeScanState = CodeScanStatus_Running -> "vscode-stop-circle"
      [] this.codeScanState = CodeScanStatus_Cancelling -> "vscode-icons:loading~spin"
      [] OTHER -> Undefined

(***************************************************************************)
(* enum TransformByQStatus, enum JDKVersion (string enums)                 *)
(***************************************************************************)
TransformByQStatus_NotStarted == "Not Started"
TransformByQStatus_Running == "Running"
TransformByQStatus_Cancelled == "Cancelled"
TransformByQStatus_Failed == "Failed"
TransformByQStatus_Succeeded == "Succeeded"
TransformByQStatus_PartiallySucceeded == "Partially Succeeded"

TransformByQReviewStatus_NotStarted == "NotStarted"
TransformByQReviewStatus_PreparingReview == "PreparingReview"
TransformByQReviewStatus_InReview == "InReview"

TransformByQReviewStatus ==
    {TransformByQReviewStatus_NotStarted, TransformByQReviewStatus_PreparingReview,
     TransformByQReviewStatus_InReview}

TransformByQStatus ==
    {TransformByQStatus_NotStarted, TransformByQStatus_Running,
     TransformByQStatus_Cancelled, TransformByQStatus_Failed,
     TransformByQStatus_Succeeded, TransformByQStatus_PartiallySucceeded}

JDKVersion_JDK8 == "8"
JDKVersion_JDK11 == "11"
JDKVersion_JDK17 == "17"

JDKVersion == {JDKVersion_JDK8, JDKVersion_JDK11, JDKVersion_JDK17}

(***************************************************************************)
(* class TransformByQState                                                 *)
(***************************************************************************)
\* mutant: the source version starts at JDK11
TransformByQState_new_sourceJDK11 ==
    [transformByQState |-> TransformByQStatus_NotStarted,
     projectName |-> "",
     projectPath |-> "",
     jobId |-> "",
     sourceJDKVersion |-> JDKVersion_JDK11,
     targetJDKVersion |-> JDKVersion_JDK17,
     planFilePath |-> "",
     summaryFilePath |-> "",
     polledJobStatus |-> "",
     jobFailureReason |-> ""]

TransformByQState_new ==
    [transformByQState |-> TransformByQStatus_NotStarted,
     projectName |-> "",
     projectPath |-> "",
     jobId |-> "",
     sourceJDKVersion |-> JDKVersion_JDK8,
     targetJDKVersion |-> JDKVersion_JDK17,
     planFilePath |-> "",
     summaryFilePath |-> "",
     polledJobStatus |-> "",
     jobFailureReason |-> ""]

TransformByQState_isNotStarted(this) ==
    this.transformByQState = TransformByQStatus_NotStarted

TransformByQState_isRunning(this) ==
    this.transformByQState = TransformByQStatus_Running

TransformByQState_isCancelled(this) ==
    this.transformByQState = TransformByQStatus_Cancelled

TransformByQState_isFailed(this) ==
    this.transformByQState = TransformByQStatus_Failed

TransformByQState_isSucceeded(this) ==
    this.transformByQState = TransformByQStatus_Succeeded

TransformByQState_isPartiallySucceeded(this) ==
    this.transformByQState = TransformByQStatus_PartiallySucceeded

TransformByQState_getProjectName(this) == this.projectName

TransformByQState_getProjectPath(this) == this.projectPath

\* mutant: the job id cannot be read before a job id was set
TransformByQState_getJobId_failsIfUnset(this) ==
    IF this.jobId = "" THEN Undefined ELSE this.jobId

TransformByQState_getJobId(this) == this.jobId

TransformByQState_getSourceJDKVersion(this) == this.sourceJDKVersion

TransformByQState_getTargetJDKVersion(this) == this.targetJDKVersion

TransformByQState_getStatus(this) == this.transformByQState

TransformByQState_getPolledJobStatus(this) == this.polledJobStatus

TransformByQState_getPlanFilePath(this) == this.planFilePath

TransformByQState_getSummaryFilePath(this) == this.summaryFilePath

TransformByQState_getJobFailureReason(this) == this.jobFailureReason

\* mutant: the reset for the next job also clears the metadata of the last one
TransformByQState_setToNotStarted_clears(this) ==
    [this EXCEPT !.transformByQState = TransformByQStatus_NotStarted,
                 !.jobId = "",
                 !.jobFailureReason = ""]

TransformByQState_setToNotStarted(this) ==
    [this EXCEPT !.transformByQState = TransformByQStatus_NotStarted]

\* mutant: the start transition is guarded by the pre-state
TransformByQState_setToRunning_guarded(this) ==
    IF this.transformByQState = TransformByQStatus_NotStarted
    THEN [this EXCEPT !.transformByQState = TransformByQStatus_Running]
    ELSE this

TransformByQState_setToRunning(this) ==
    [this EXCEPT !.transformByQState = TransformByQStatus_Running]

\* mutant: a cancelled job is recorded as a failed one
TransformByQState_setToCancelled_failed(this) ==
    [this EXCEPT !.transformByQState = TransformByQStatus_Failed]

TransformByQState_setToCancelled(this) ==
    [this EXCEPT !.transformByQState = TransformByQStatus_Cancelled]

\* mutant: the transition to Failed fills in a reason of its own
TransformByQState_setToFailed_setsReason(this) ==
    [this EXCEPT !.transformByQState = TransformByQStatus_Failed,
                 !.jobFailureReason = "upload rejected"]

TransformByQState_setToFailed(this) ==
    [this EXCEPT !.transformByQState = TransformByQStatus_Failed]

\* mutant: the transition to Succeeded is taken only from Running
TransformByQState_setToSucceeded_guarded(this) ==
    IF this.transformByQState = TransformByQStatus_Running
    THEN [this EXCEPT !.transformByQState = TransformByQStatus_Succeeded]
    ELSE this

TransformByQState_setToSucceeded(this) ==
    [this EXCEPT !.transformByQState = TransformByQStatus_Succeeded]

TransformByQState_setToPartiallySucceeded(this) ==
    [this EXCEPT !.transformByQState = TransformByQStatus_PartiallySucceeded]

TransformByQState_setProjectName(this, name) == [this EXCEPT !.projectName = name]

TransformByQState_setProjectPath(this, path) == [this EXCEPT !.projectPath = path]

\* mutant: a new job id also clears the failure reason of the last job
TransformByQState_setJobId_clearsReason(this, id) ==
    [this EXCEPT !.jobId = id, !.jobFailureReason = ""]

TransformByQState_setJobId(this, id) == [this EXCEPT !.jobId = id]

TransformByQState_setSourceJDKVersionToJDK8(this) ==
    [this EXCEPT !.sourceJDKVersion = JDKVersion_JDK8]

\* mutant: the setter stores the target's version as the source version
TransformByQState_setSourceJDKVersionToJDK11_storesJDK17(this) ==
    [this EXCEPT !.sourceJDKVersion = JDKVersion_JDK17]

TransformByQState_setSourceJDKVersionToJDK11(this) ==
    [this EXCEPT !.sourceJDKVersion = JDKVersion_JDK11]

TransformByQState_setTargetJDKVersionToJDK17(this) ==
    [this EXCEPT !.targetJDKVersion = JDKVersion_JDK17]

TransformByQState_setPlanFilePath(this, filePath) ==
    [this EXCEPT !.planFilePath = filePath]

TransformByQState_setPolledJobStatus(this, status) ==
    [this EXCEPT !.polledJobStatus = status]

TransformByQState_setSummaryFilePath(this, filePath) ==
    [this EXCEPT !.summaryFilePath = filePath]

TransformByQState_setJobFailureReason(this, reason) ==
    [this EXCEPT !.jobFailureReason = reason]

\* mutant: the Cancelled case is missing from the switch
TransformByQState_getPrefixTextForButton_noCancelled(this) ==
    CASE this.transformByQState = TransformByQStatus_NotStarted -> "Run"
      [] OTHER -> "Stop"

\* mutant: while the job runs the label shows the status polled last
TransformByQState_getPrefixTextForButton_showsPolledStatus(this) ==
    CASE this.transformByQState = TransformByQStatus_NotStarted -> "Run"
      [] this.transformByQState = TransformByQStatus_Cancelled -> "Stopping"
      [] OTHER -> IF this.polledJobStatus # "" THEN this.polledJobStatus ELSE "Stop"

TransformByQState_getPrefixTextForButton(this) ==
    CASE this.transformByQState = TransformByQStatus_NotStarted -> "Run"
      [] this.transformByQState = TransformByQStatus_Cancelled -> "Stopping"
      [] OTHER -> "Stop"

\* mutant: the icon follows the label, with a spinner for Cancelled
TransformByQState_getIconForButton_spinner(this) ==
    CASE this.transformByQState = TransformByQStatus_NotStarted -> "vscode-play"
      [] this.transformByQState = TransformByQStatus_Cancelled -> "vscode-icons:loading~spin"
      [] OTHER -> "vscode-stop-circle"

TransformByQState_getIconForButton(this) ==
    CASE this.transformByQState = TransformByQStatus_NotStarted -> "vscode-play"
      [] OTHER -> "vscode-stop-circle"

(***************************************************************************)
(* CodeSuggestionsState: whether code suggestions are enabled, kept under  *)
(* one key of a key/value store (the Memento) with a fallback for when the *)
(* key is absent.  The store is a function from the keys present to their  *)
(* values.                                                                 *)
(***************************************************************************)
autoTriggerEnabledKey == "autoTriggerEnabledKey"

EmptyMemento == [k \in {} |-> FALSE]

Memento_update(context, key, value) ==
    [k \in DOMAIN context \cup {key} |-> IF k = key THEN value ELSE context[k]]

CodeSuggestionsState_new(context, fallback) ==
    [context |-> context, fallback |-> fallback]

\* mutant: an absent value reads as disabled, whatever the fallback
CodeSuggestionsState_isSuggestionsEnabled_noFallback(this) ==
    IF autoTriggerEnabledKey \in DOMAIN this.context
    THEN this.context[autoTriggerEnabledKey]
    ELSE FALSE

CodeSuggestionsState_isSuggestionsEnabled(this) ==
    IF autoTriggerEnabledKey \in DOMAIN this.context
    THEN this.context[autoTriggerEnabledKey]
    ELSE this.fallback

\* A call on the instance: the value it read when it began, the value it is
\* to store, the writes it made, the values it fired onDidChangeState with
\* and the value it returned (<<>> while it has not returned, and for void).
SuggestionsCall(pc, op, arg, read, toSet, writes, fired, ret) ==
    [pc |-> pc, op |-> op, arg |-> arg, read |-> read, toSet |-> toSet,
     writes |-> writes, fired |-> fired, ret |-> ret]

NoSuggestionsCall == SuggestionsCall("idle", "none", FALSE, FALSE, FALSE, 0, <<>>, <<>>)

\* No toggleSuggestions() call has completed on an instance that started
\* disabled.
NoSuggestionsHistory == [start |-> FALSE, oddToggles |-> FALSE]

(***************************************************************************)
(* deleteCertCommand: one invocation on one certificate node.              *)
(***************************************************************************)
DeleteCert_new(activeStatus) ==
    [pc |-> "checkStatus", activeStatus |-> activeStatus, things |-> "unknown",
     confirmed |-> "unknown", policies |-> "unknown", forceConfirmed |-> "unknown",
     deleteCalls |-> <<>>, messages |-> <<>>, refreshed |-> FALSE]

\* The forceDelete argument of deleteCertificate.
\* mutant: force deletion whenever the policy list is not known to be empty
DeleteCert_forceDelete_unlessEmpty(c) ==
    c.policies # "none"

DeleteCert_forceDelete(c) ==
    c.policies = "some" /\ c.forceConfirmed = "Delete"

(***************************************************************************)
(* SAM debug configurations (lambda/local/debugConfiguration.ts).  A path  *)
(* is the sequence of its segments.  An object is a function from the      *)
(* property names it has to their values, so that a missing property is a  *)
(* name outside its DOMAIN.  The outcome of a lookup is a returned value,  *)
(* a returned undefined, or a thrown Error with the fixed part of its      *)
(* message.                                                                *)
(***************************************************************************)
Returned(value) == [kind |-> "return", value |-> value]
ReturnedUndefined == [kind |-> "undefined", value |-> <<>>]
Thrown(message) == [kind |-> "throw", value |-> message]

\* The path resolved against the workspace folder, <<>> being no folder.
tryGetAbsolutePath(folder, relativePath) == folder \o relativePath

\* The property key an index expression looks up: a missing
\* samTemplateResource indexes the Resources object with "undefined".
samTemplateResourceKey(invokeTarget) ==
    IF "samTemplateResource" \in DOMAIN invokeTarget
    THEN invokeTarget.samTemplateResource
    ELSE "undefined"

getTemplate(registry, folder, config) ==
    IF config.invokeTarget.target # "template"
    THEN ReturnedUndefined
    ELSE LET templateInvoke == config.invokeTarget
             fullPath == tryGetAbsolutePath(folder, templateInvoke.samTemplatePath)
         IN  IF fullPath \in DOMAIN registry
             THEN Returned(registry[fullPath])
             ELSE ReturnedUndefined

\* mutant: a key that the Resources object lacks yields undefined
getTemplateResource_undefinedIfAbsent(registry, folder, config) ==
    IF config.invokeTarget.target # "template"
    THEN ReturnedUndefined
    ELSE LET templateInvoke == config.invokeTarget
             cfnTemplate == getTemplate(registry, folder, config)
         IN  IF cfnTemplate.kind = "undefined"
             THEN Thrown("template not found (not registered?)")
             ELSE IF "Resources" \notin DOMAIN cfnTemplate.value
             THEN Thrown("no Resources in template")
             ELSE IF samTemplateResourceKey(templateInvoke)
                        \notin DOMAIN cfnTemplate.value.Resources
             THEN ReturnedUndefined
             ELSE Returned(cfnTemplate.value.Resources[
                               samTemplateResourceKey(templateInvoke)])

getTemplateResource(registry, folder, config) ==
    IF config.invokeTarget.target # "template"
    THEN ReturnedUndefined
    ELSE LET templateInvoke == config.invokeTarget
             cfnTemplate == getTemplate(registry, folder, config)
         IN  IF cfnTemplate.kind = "undefined"
             THEN Thrown("template not found (not registered?)")
             ELSE IF "Resources" \notin DOMAIN cfnTemplate.value
             THEN Thrown("no Resources in template")
             ELSE IF samTemplateResourceKey(templateInvoke)
                        \notin DOMAIN cfnTemplate.value.Resources
             THEN Thrown("template Resources object does not contain key")
             ELSE Returned(cfnTemplate.value.Resources[
                               samTemplateResourceKey(templateInvoke)])

\* path.resolve() rejects an argument that is not a string, so a resource
\* whose Properties have no CodeUri ends the call with a TypeError.
getCodeRoot(registry, folder, config) ==
    CASE config.invokeTarget.target = "code" ->
             Returned(tryGetAbsolutePath(folder, config.invokeTarget.projectRoot))
      [] config.invokeTarget.target = "template" ->
             LET templateInvoke == config.invokeTarget
                 templateResource == getTemplateResource(registry, folder, config)
                 fullPath == tryGetAbsolutePath(folder, templateInvoke.samTemplatePath)
                 templateDir == SubSeq(fullPath, 1, Len(fullPath) - 1)
             IN  IF templateResource.kind = "throw"
                 THEN templateResource
                 ELSE IF \/ templateResource.kind = "undefined"
                         \/ "Properties" \notin DOMAIN templateResource.value
                 THEN ReturnedUndefined
                 ELSE IF "CodeUri" \notin DOMAIN templateResource.value.Properties
                 THEN Thrown("TypeError: the \"paths[1]\" argument must be of type string")
                 ELSE Returned(templateDir \o templateResource.value.Properties.CodeUri)
      [] OTHER -> Thrown("invalid invokeTarget")

getHandlerName(registry, folder, config) ==
    CASE config.invokeTarget.target = "code" ->
             Returned(config.invokeTarget.lambdaHandler)
      [] config.invokeTarget.target = "template" ->
             LET templateResource == getTemplateResource(registry, folder, config)
             IN  IF templateResource.kind = "throw"
                 THEN templateResource
                 ELSE IF \/ templateResource.kind = "undefined"
                         \/ "Properties" \notin DOMAIN templateResource.value
                         \/ "Handler" \notin DOMAIN templateResource.value.Properties
                 THEN ReturnedUndefined
                 ELSE Returned(templateResource.value.Properties.Handler)
      [] OTHER -> Returned("")

\* A lookup: the workspace folder, the configuration and the template
\* registry it was made with, the function called and how the call ended.
DebugLookup(folder, config, registry, op, outcome) ==
    [folder |-> folder, config |-> config, registry |-> registry,
     op |-> op, outcome |-> outcome]

EmptyObject == [k \in {} |-> <<>>]

NoDebugLookup ==
    DebugLookup(<<>>,
                [invokeTarget |-> [target |-> "code", projectRoot |-> <<"src">>,
                                   lambdaHandler |-> "app.handler"]],
                EmptyObject, "none", ReturnedUndefined)

ElsewhereIdle ==
    /\ deleteCert = [f \in Flows |-> DeleteCert_new("INACTIVE")]
    /\ suggestions = CodeSuggestionsState_new(EmptyMemento, FALSE)
    /\ sugCalls = [f \in Flows |-> NoSuggestionsCall]
    /\ samDebug = NoDebugLookup
    /\ scanStopPc = "idle"
    /\ sugHistory = NoSuggestionsHistory

(***************************************************************************)
(* What the caller that awaits a job receives when the job ends: a result  *)
(* or an error.  An error is its class name, its message and its cancelled *)
(* marker; CodeScanStoppedError and TransformByQStoppedError pass a fixed  *)
(* message and cancelled = true to ToolkitError, and nothing else.  A      *)
(* result and an ordinary failure carry no cancelled marker.               *)
(***************************************************************************)
\* mutant: the error is built without the cancelled option
CodeScanStoppedError_new_notCancelled ==
    [name |-> "CodeScanStoppedError", message |-> "Security scan stopped by user.",
     cancelled |-> FALSE]

CodeScanStoppedError_new ==
    [name |-> "CodeScanStoppedError", message |-> "Security scan stopped by user.",
     cancelled |-> TRUE]

TransformByQStoppedError_new ==
    [name |-> "TransformByQStoppedError", message |-> "Transform by Q stopped by user.",
     cancelled |-> TRUE]

Outcome_none == [name |-> "none", message |-> "", cancelled |-> FALSE]
Outcome_result == [name |-> "result", message |-> "", cancelled |-> FALSE]
Outcome_failure == [name |-> "Error", message |-> "remote failure", cancelled |-> FALSE]

(***************************************************************************)
(* History: what the last call was, on which object, from which job state, *)
(* and what it returned ("void" for a setter).                             *)
(***************************************************************************)
ScanCalled(op, val) ==
    last' = [obj |-> "scan", op |-> op, pre |-> codeScanState.codeScanState,
             val |-> val]

TransformCalled(op, val) ==
    last' = [obj |-> "transform", op |-> op,
             pre |-> transformByQState.transformByQState, val |-> val]

(***************************************************************************)
(* Calls on the singleton codeScanState                                    *)
(***************************************************************************)
ScanFrame == UNCHANGED <<transformByQState, flows, lastTransformCall, transformMutated,
                         reviewStatus, elsewhere>>

ScanSetToNotStarted ==
    /\ codeScanState' = CodeScanState_setToNotStarted(codeScanState)
    /\ lastScanCall' = "setToNotStarted"
    /\ ScanCalled("setToNotStarted", "void")
    /\ ScanFrame

ScanSetToCancelling ==
    /\ codeScanState' = CodeScanState_setToCancelling(codeScanState)
    /\ lastScanCall' = "setToCancelling"
    /\ ScanCalled("setToCancelling", "void")
    /\ ScanFrame

ScanSetToRunning ==
    /\ codeScanState' = CodeScanState_setToRunning(codeScanState)
    /\ lastScanCall' = "setToRunning"
    /\ ScanCalled("setToRunning", "void")
    /\ ScanFrame

ScanIsNotStarted ==
    /\ ScanCalled("isNotStarted", CodeScanState_isNotStarted(codeScanState))
    /\ UNCHANGED <<codeScanState, lastScanCall>>
    /\ ScanFrame

ScanIsRunning ==
    /\ ScanCalled("isRunning", CodeScanState_isRunning(codeScanState))
    /\ UNCHANGED <<codeScanState, lastScanCall>>
    /\ ScanFrame

ScanIsCancelling ==
    /\ ScanCalled("isCancelling", CodeScanState_isCancelling(codeScanState))
    /\ UNCHANGED <<codeScanState, lastScanCall>>
    /\ ScanFrame

ScanGetPrefixTextForButton ==
    /\ ScanCalled("getPrefixTextForButton",
                  CodeScanState_getPrefixTextForButton(codeScanState))
    /\ UNCHANGED <<codeScanState, lastScanCall>>
    /\ ScanFrame

ScanGetIconForButton ==
    /\ ScanCalled("getIconForButton", CodeScanState_getIconForButton(codeScanState))
    /\ UNCHANGED <<codeScanState, lastScanCall>>
    /\ ScanFrame

(***************************************************************************)
(* Calls on the singleton transformByQState                                *)
(***************************************************************************)
\* mutant: a call on the controller resets the review status
TransformFrame_resetsReview ==
    /\ UNCHANGED <<codeScanState, flows, lastScanCall, elsewhere>>
    /\ reviewStatus' = "NotStarted"

TransformFrame == UNCHANGED <<codeScanState, flows, lastScanCall, reviewStatus, elsewhere>>

TransformSetToNotStarted ==
    /\ transformByQState' = TransformByQState_setToNotStarted(transformByQState)
    /\ lastTransformCall' = "setToNotStarted"
    /\ transformMutated' = TRUE
    /\ TransformCalled("setToNotStarted", "void")
    /\ TransformFrame

TransformSetToRunning ==
    /\ transformByQState' = TransformByQState_setToRunning(transformByQState)
    /\ lastTransformCall' = "setToRunning"
    /\ transformMutated' = TRUE
    /\ TransformCalled("setToRunning", "void")
    /\ TransformFrame

TransformSetToCancelled ==
    /\ transformByQState' = TransformByQState_setToCancelled(transformByQState)
    /\ lastTransformCall' = "setToCancelled"
    /\ transformMutated' = TRUE
    /\ TransformCalled("setToCancelled", "void")
    /\ TransformFrame

TransformSetToFailed ==
    /\ transformByQState' = TransformByQState_setToFailed(transformByQState)
    /\ lastTransformCall' = "setToFailed"
    /\ transformMutated' = TRUE
    /\ TransformCalled("setToFailed", "void")
    /\ TransformFrame

TransformSetToSucceeded ==
    /\ transformByQState' = TransformByQState_setToSucceeded(transformByQState)
    /\ lastTransformCall' = "setToSucceeded"
    /\ transformMutated' = TRUE
    /\ TransformCalled("setToSucceeded", "void")
    /\ TransformFrame

TransformSetToPartiallySucceeded ==
    /\ transformByQState' = TransformByQState_setToPartiallySucceeded(transformByQState)
    /\ lastTransformCall' = "setToPartiallySucceeded"
    /\ transformMutated' = TRUE
    /\ TransformCalled("setToPartiallySucceeded", "void")
    /\ TransformFrame

\* A metadata setter: the object after the call is `after`.
TransformSetter(op, after) ==
    /\ transformByQState' = after
    /\ transformMutated' = TRUE
    /\ TransformCalled(op, "void")
    /\ UNCHANGED lastTransformCall
    /\ TransformFrame

TransformSetProjectName ==
    \E name \in Names :
        TransformSetter("setProjectName",
                        TransformByQState_setProjectName(transformByQState, name))

TransformSetProjectPath ==
    \E path \in Paths :
        TransformSetter("setProjectPath",
                        TransformByQState_setProjectPath(transformByQState, path))

TransformSetJobId ==
    \E id \in JobIds :
        TransformSetter("setJobId", TransformByQState_setJobId(transformByQState, id))

TransformSetSourceJDKVersionToJDK8 ==
    TransformSetter("setSourceJDKVersionToJDK8",
                    TransformByQState_setSourceJDKVersionToJDK8(transformByQState))

TransformSetSourceJDKVersionToJDK11 ==
    TransformSetter("setSourceJDKVersionToJDK11",
                    TransformByQState_setSourceJDKVersionToJDK11(transformByQState))

TransformSetTargetJDKVersionToJDK17 ==
    TransformSetter("setTargetJDKVersionToJDK17",
                    TransformByQState_setTargetJDKVersionToJDK17(transformByQState))

TransformSetPlanFilePath ==
    \E filePath \in Paths :
        TransformSetter("setPlanFilePath",
                        TransformByQState_setPlanFilePath(transformByQState, filePath))

TransformSetPolledJobStatus ==
    \E status \in Statuses :
        TransformSetter("setPolledJobStatus",
                        TransformByQState_setPolledJobStatus(transformByQState, status))

TransformSetSummaryFilePath ==
    \E filePath \in Paths :
        TransformSetter("setSummaryFilePath",
                        TransformByQState_setSummaryFilePath(transformByQState, filePath))

TransformSetJobFailureReason ==
    \E reason \in Reasons :
        TransformSetter("setJobFailureReason",
                        TransformByQState_setJobFailureReason(transformByQState, reason))

\* A call that only reads: it returns `val`.
TransformQuery(op, val) ==
    /\ TransformCalled(op, val)
    /\ UNCHANGED <<transformByQState, lastTransformCall, transformMutated>>
    /\ TransformFrame

TransformIsNotStarted ==
    TransformQuery("isNotStarted", TransformByQState_isNotStarted(transformByQState))

TransformIsRunning ==
    TransformQuery("isRunning", TransformByQState_isRunning(transformByQState))

TransformIsCancelled ==
    TransformQuery("isCancelled", TransformByQState_isCancelled(transformByQState))

TransformIsFailed ==
    TransformQuery("isFailed", TransformByQState_isFailed(transformByQState))

TransformIsSucceeded ==
    TransformQuery("isSucceeded", TransformByQState_isSucceeded(transformByQState))

TransformIsPartiallySucceeded ==
    TransformQuery("isPartiallySucceeded",
                   TransformByQState_isPartiallySucceeded(transformByQState))

TransformGetPrefixTextForButton ==
    TransformQuery("getPrefixTextForButton",
                   TransformByQState_getPrefixTextForButton(transformByQState))

TransformGetIconForButton ==
    TransformQuery("getIconForButton",
                   TransformByQState_getIconForButton(transformByQState))

(***************************************************************************)
(* Spec: the two singletons after construction, and any call of any        *)
(* method, in any order, with any argument.                                *)
(***************************************************************************)
NoCall == [obj |-> "none", op |-> "new", pre |-> "none", val |-> "void"]

JobsInit ==
    /\ codeScanState = CodeScanState_new
    /\ transformByQState = TransformByQState_new
    /\ scanPc = [f \in Flows |-> "idle"]
    /\ scanPolls = [f \in Flows |-> TRUE]
    /\ scanOutcome = [f \in Flows |-> Outcome_none]
    /\ transformOutcome = Outcome_none
    /\ transformPc = [f \in Flows |-> "idle"]
    /\ last = NoCall
    /\ lastScanCall = "none"
    /\ lastTransformCall = "none"
    /\ transformMutated = FALSE
    /\ reviewStatus = TransformByQReviewStatus_NotStarted

Init == JobsInit /\ ElsewhereIdle

Next ==
    \/ ScanSetToNotStarted
    \/ ScanSetToCancelling
    \/ ScanSetToRunning
    \/ ScanIsNotStarted
    \/ ScanIsRunning
    \/ ScanIsCancelling
    \/ ScanGetPrefixTextForButton
    \/ ScanGetIconForButton
    \/ TransformSetToNotStarted
    \/ TransformSetToRunning
    \/ TransformSetToCancelled
    \/ TransformSetToFailed
    \/ TransformSetToSucceeded
    \/ TransformSetToPartiallySucceeded
    \/ TransformSetProjectName
    \/ TransformSetProjectPath
    \/ TransformSetJobId
    \/ TransformSetSourceJDKVersionToJDK8
    \/ TransformSetSourceJDKVersionToJDK11
    \/ TransformSetTargetJDKVersionToJDK17
    \/ TransformSetPlanFilePath
    \/ TransformSetPolledJobStatus
    \/ TransformSetSummaryFilePath
    \/ TransformSetJobFailureReason
    \/ TransformIsNotStarted
    \/ TransformIsRunning
    \/ TransformIsCancelled
    \/ TransformIsFailed
    \/ TransformIsSucceeded
    \/ TransformIsPartiallySucceeded
    \/ TransformGetPrefixTextForButton
    \/ TransformGetIconForButton

Spec == Init /\ [][Next]_vars

(***************************************************************************)
(* The flows that use the scan controller: the UI commands that start and  *)
(* stop a scan, and the driver that performs the remote operation.         *)
(* A flow is "inflight" from the step that starts its remote operation to  *)
(* the step in which that operation ends.                                  *)
(***************************************************************************)
ScanFlowFrame == UNCHANGED <<transformByQState, transformPc, transformOutcome, scanPolls,
                             lastTransformCall, transformMutated,
                             reviewStatus, elsewhere>>

\* The start command: test and set in one synchronous step.
ScanFlowStart(f) ==
    /\ scanPc[f] = "idle"
    /\ IF CodeScanState_isNotStarted(codeScanState)
       THEN /\ codeScanState' = CodeScanState_setToRunning(codeScanState)
            /\ scanPc' = [scanPc EXCEPT ![f] = "inflight"]
            /\ scanOutcome' = [scanOutcome EXCEPT ![f] = Outcome_none]
            /\ lastScanCall' = "setToRunning"
            /\ ScanCalled("setToRunning", "void")
       ELSE /\ ScanCalled("isNotStarted", FALSE)
            /\ UNCHANGED <<codeScanState, scanPc, scanOutcome, lastScanCall>>
    /\ ScanFlowFrame

\* The stop command: a cancel request, made only while a scan is running.
ScanStopCommand ==
    /\ IF CodeScanState_isRunning(codeScanState)
       THEN /\ codeScanState' = CodeScanState_setToCancelling(codeScanState)
            /\ lastScanCall' = "setToCancelling"
            /\ ScanCalled("setToCancelling", "void")
       ELSE /\ ScanCalled("isRunning", FALSE)
            /\ UNCHANGED <<codeScanState, lastScanCall>>
    /\ UNCHANGED <<scanPc, scanOutcome>>
    /\ ScanFlowFrame

\* A safe point of a driver that checks isCancelling(): on observing it the
\* driver stops, resets the controller and raises CodeScanStoppedError.
ScanDriverCheckpoint(f) ==
    /\ scanPc[f] = "inflight"
    /\ scanPolls[f]
    /\ IF CodeScanState_isCancelling(codeScanState)
       THEN /\ codeScanState' = CodeScanState_setToNotStarted(codeScanState)
            /\ scanPc' = [scanPc EXCEPT ![f] = "idle"]
            /\ scanOutcome' = [scanOutcome EXCEPT ![f] = CodeScanStoppedError_new]
            /\ lastScanCall' = "setToNotStarted"
            /\ ScanCalled("setToNotStarted", "void")
       ELSE /\ ScanCalled("isCancelling", FALSE)
            /\ UNCHANGED <<codeScanState, scanPc, scanOutcome, lastScanCall>>
    /\ ScanFlowFrame

\* The remote operation of flow f ends by itself (a result or a failure).
ScanDriverConclude(f) ==
    /\ scanPc[f] = "inflight"
    /\ codeScanState' = CodeScanState_setToNotStarted(codeScanState)
    /\ scanPc' = [scanPc EXCEPT ![f] = "idle"]
    /\ \E outcome \in {Outcome_result, Outcome_failure} :
           scanOutcome' = [scanOutcome EXCEPT ![f] = outcome]
    /\ lastScanCall' = "setToNotStarted"
    /\ ScanCalled("setToNotStarted", "void")
    /\ ScanFlowFrame

\* A start command that reads the state, suspends, and resumes without
\* reading it again.
ScanFlowCheck(f) ==
    /\ scanPc[f] = "idle"
    /\ CodeScanState_isNotStarted(codeScanState)
    /\ scanPc' = [scanPc EXCEPT ![f] = "checked"]
    /\ scanOutcome' = [scanOutcome EXCEPT ![f] = Outcome_none]
    /\ ScanCalled("isNotStarted", TRUE)
    /\ UNCHANGED <<codeScanState, lastScanCall>>
    /\ ScanFlowFrame

ScanFlowResume(f) ==
    /\ scanPc[f] = "checked"
    /\ codeScanState' = CodeScanState_setToRunning(codeScanState)
    /\ scanPc' = [scanPc EXCEPT ![f] = "inflight"]
    /\ scanOutcome' = [scanOutcome EXCEPT ![f] = Outcome_none]
    /\ lastScanCall' = "setToRunning"
    /\ ScanCalled("setToRunning", "void")
    /\ ScanFlowFrame

(***************************************************************************)
(* The flows that use the transform controller.  A flow is "done" between  *)
(* the terminal transition and the reset to NotStarted.                    *)
(***************************************************************************)
TransformFlowFrame == UNCHANGED <<codeScanState, scanPc, scanPolls, scanOutcome,
                                  lastScanCall, reviewStatus, elsewhere>>

TransformFlowStart(f) ==
    /\ transformPc[f] = "idle"
    /\ IF TransformByQState_isNotStarted(transformByQState)
       THEN /\ transformByQState' = TransformByQState_setToRunning(transformByQState)
            /\ transformPc' = [transformPc EXCEPT ![f] = "inflight"]
            /\ lastTransformCall' = "setToRunning"
            /\ transformMutated' = TRUE
            /\ TransformCalled("setToRunning", "void")
       ELSE /\ TransformCalled("isNotStarted", FALSE)
            /\ UNCHANGED <<transformByQState, transformPc, lastTransformCall,
                           transformMutated>>
    /\ UNCHANGED transformOutcome
    /\ TransformFlowFrame

\* The remote operation of flow f ends: exactly one terminal setter.
TransformDriverConclude(f) ==
    /\ transformPc[f] = "inflight"
    /\ \E t \in {"setToSucceeded", "setToFailed", "setToPartiallySucceeded",
                 "setToCancelled"} :
        /\ transformByQState' =
              CASE t = "setToSucceeded" ->
                       TransformByQState_setToSucceeded(transformByQState)
                [] t = "setToFailed" ->
                       TransformByQState_setToFailed(transformByQState)
                [] t = "setToPartiallySucceeded" ->
                       TransformByQState_setToPartiallySucceeded(transformByQState)
                [] t = "setToCancelled" ->
                       TransformByQState_setToCancelled(transformByQState)
        /\ lastTransformCall' = t
        /\ TransformCalled(t, "void")
        /\ transformOutcome' =
              CASE t = "setToCancelled" -> TransformByQStoppedError_new
                [] t = "setToFailed" -> Outcome_failure
                [] OTHER -> Outcome_result
    /\ transformPc' = [transformPc EXCEPT ![f] = "done"]
    /\ transformMutated' = TRUE
    /\ TransformFlowFrame

\* The flow whose job ended makes the controller ready for the next job.
TransformFlowReset(f) ==
    /\ transformPc[f] = "done"
    /\ transformByQState' = TransformByQState_setToNotStarted(transformByQState)
    /\ transformPc' = [transformPc EXCEPT ![f] = "idle"]
    /\ transformOutcome' = Outcome_none
    /\ lastTransformCall' = "setToNotStarted"
    /\ transformMutated' = TRUE
    /\ TransformCalled("setToNotStarted", "void")
    /\ TransformFlowFrame

TransformFlowCheck(f) ==
    /\ transformPc[f] = "idle"
    /\ TransformByQState_isNotStarted(transformByQState)
    /\ transformPc' = [transformPc EXCEPT ![f] = "checked"]
    /\ TransformCalled("isNotStarted", TRUE)
    /\ UNCHANGED <<transformByQState, lastTransformCall, transformMutated,
                   transformOutcome>>
    /\ TransformFlowFrame

TransformFlowResume(f) ==
    /\ transformPc[f] = "checked"
    /\ transformByQState' = TransformByQState_setToRunning(transformByQState)
    /\ transformPc' = [transformPc EXCEPT ![f] = "inflight"]
    /\ UNCHANGED transformOutcome
    /\ lastTransformCall' = "setToRunning"
    /\ transformMutated' = TRUE
    /\ TransformCalled("setToRunning", "void")
    /\ TransformFlowFrame

(***************************************************************************)
(* SpecFlows: flows that keep the discipline (test and set in one step,    *)
(* reset only by the flow whose operation ended).                          *)
(* SpecFlowsFair: the same, where a driver that checks isCancelling()      *)
(* does reach its next safe point.                                         *)
(* SpecRacy: flows that suspend between the test and the set.              *)
(***************************************************************************)
FlowInit ==
    /\ codeScanState = CodeScanState_new
    /\ transformByQState = TransformByQState_new
    /\ scanPc = [f \in Flows |-> "idle"]
    /\ scanPolls \in [Flows -> BOOLEAN]
    /\ scanOutcome = [f \in Flows |-> Outcome_none]
    /\ transformOutcome = Outcome_none
    /\ transformPc = [f \in Flows |-> "idle"]
    /\ last = NoCall
    /\ lastScanCall = "none"
    /\ lastTransformCall = "none"
    /\ transformMutated = FALSE
    /\ reviewStatus = TransformByQReviewStatus_NotStarted
    /\ ElsewhereIdle

FlowNext ==
    \/ \E f \in Flows : ScanFlowStart(f)
    \/ ScanStopCommand
    \/ \E f \in Flows : ScanDriverCheckpoint(f)
    \/ \E f \in Flows : ScanDriverConclude(f)
    \/ \E f \in Flows : TransformFlowStart(f)
    \/ \E f \in Flows : TransformDriverConclude(f)
    \/ \E f \in Flows : TransformFlowReset(f)

SpecFlows == FlowInit /\ [][FlowNext]_vars

SpecFlowsFair ==
    /\ SpecFlows
    /\ \A f \in Flows : WF_vars(ScanDriverCheckpoint(f))

RacyNext ==
    \/ \E f \in Flows : ScanFlowCheck(f)
    \/ \E f \in Flows : ScanFlowResume(f)
    \/ ScanStopCommand
    \/ \E f \in Flows : ScanDriverCheckpoint(f)
    \/ \E f \in Flows : ScanDriverConclude(f)
    \/ \E f \in Flows : TransformFlowCheck(f)
    \/ \E f \in Flows : TransformFlowResume(f)
    \/ \E f \in Flows : TransformDriverConclude(f)
    \/ \E f \in Flows : TransformFlowReset(f)

RacyInit ==
    /\ FlowInit
    /\ \A f \in Flows : scanPolls[f]

SpecRacy == RacyInit /\ [][RacyNext]_vars

(***************************************************************************)
(* Vocabulary of the properties                                            *)
(***************************************************************************)
InFlightScans == {f \in Flows : scanPc[f] = "inflight"}

InFlightTransforms == {f \in Flows : transformPc[f] = "inflight"}

ScanTransitions == {"setToNotStarted", "setToCancelling", "setToRunning"}

TransformTransitions ==
    {"setToNotStarted", "setToRunning", "setToCancelled", "setToFailed",
     "setToSucceeded", "setToPartiallySucceeded"}

\* The state a transition is named after; "none" is the state of construction.
ScanTargetOf(op) ==
    CASE op = "none" -> CodeScanStatus_NotStarted
      [] op = "setToNotStarted" -> CodeScanStatus_NotStarted
      [] op = "setToCancelling" -> CodeScanStatus_Cancelling
      [] op = "setToRunning" -> CodeScanStatus_Running

TransformTargetOf(op) ==
    CASE op = "none" -> TransformByQStatus_NotStarted
      [] op = "setToNotStarted" -> TransformByQStatus_NotStarted
      [] op = "setToRunning" -> TransformByQStatus_Running
      [] op = "setToCancelled" -> TransformByQStatus_Cancelled
      [] op = "setToFailed" -> TransformByQStatus_Failed
      [] op = "setToSucceeded" -> TransformByQStatus_Succeeded
      [] op = "setToPartiallySucceeded" -> TransformByQStatus_PartiallySucceeded

\* The last call was transition `op` on the scan (transform) controller.
LastIsScanCall(op) == last.obj = "scan" /\ last.op = op

LastIsTransformCall(op) == last.obj = "transform" /\ last.op = op

(***************************************************************************)
(* C1.  After any sequence of setTo* calls, from any state and in any      *)
(* order, each controller is in the state the last setTo* call names, and  *)
(* in NotStarted when there was no call; the predicates answer accordingly *)
(* (after setToRunning isRunning and not isCancelling, after               *)
(* setToCancelling isCancelling and not isRunning, after setToNotStarted   *)
(* isNotStarted).                                                          *)
(***************************************************************************)
C1_LastTransitionWins ==
    /\ codeScanState.codeScanState = ScanTargetOf(lastScanCall)
    /\ transformByQState.transformByQState = TransformTargetOf(lastTransformCall)
    /\ CodeScanState_isRunning(codeScanState) <=> lastScanCall = "setToRunning"
    /\ CodeScanState_isCancelling(codeScanState) <=> lastScanCall = "setToCancelling"
    /\ CodeScanState_isNotStarted(codeScanState)
          <=> lastScanCall \in {"none", "setToNotStarted"}

\* The scan went Running, Cancelling, NotStarted and the transform job failed.
C1_Witness ==
    /\ LastIsScanCall("setToNotStarted")
    /\ last.pre = CodeScanStatus_Cancelling
    /\ CodeScanState_isNotStarted(codeScanState)
    /\ lastTransformCall = "setToFailed"
    /\ TransformByQState_isFailed(transformByQState)

(***************************************************************************)
(* C2.  Single flight: when every flow starts by testing isNotStarted()    *)
(* and calling setToRunning() in one step, and resets the controller only  *)
(* when its own remote operation has ended, at most one scan and at most   *)
(* one transform job are in flight at any time.                            *)
(***************************************************************************)
C2_SingleFlight ==
    /\ Cardinality(InFlightScans) <= 1
    /\ Cardinality(InFlightTransforms) <= 1

\* A scan and a transform job are in flight and a further start was refused.
C2_Witness ==
    /\ InFlightScans # {}
    /\ InFlightTransforms # {}
    /\ last.op = "isNotStarted"
    /\ last.val = FALSE

(***************************************************************************)
(* C3.  Two-phase scan cancellation: the step of a cancel request leaves   *)
(* the controller in Cancelling and every in-flight operation in flight;   *)
(* the controller leaves Cancelling only to NotStarted, and only in the    *)
(* step in which a driver in flight ends its operation and calls           *)
(* setToNotStarted().                                                      *)
(***************************************************************************)
C3_TwoPhaseScanCancellation ==
    [][/\ (lastScanCall # "setToCancelling" /\ lastScanCall' = "setToCancelling")
            => /\ CodeScanState_isCancelling(codeScanState')
               /\ scanPc' = scanPc
               /\ InFlightScans # {}
       /\ (CodeScanState_isCancelling(codeScanState)
             /\ ~CodeScanState_isCancelling(codeScanState'))
            => /\ CodeScanState_isNotStarted(codeScanState')
               /\ lastScanCall' = "setToNotStarted"
               /\ \E f \in Flows : scanPc[f] = "inflight" /\ scanPc'[f] = "idle"
      ]_vars

\* Cancelling, the scan still in flight, and a start refused meanwhile.
C3_Witness ==
    /\ CodeScanState_isCancelling(codeScanState)
    /\ InFlightScans # {}
    /\ LastIsScanCall("isNotStarted")
    /\ last.val = FALSE

(***************************************************************************)
(* C4.  Cancellation liveness: when the driver in flight checks            *)
(* isCancelling() at its safe points and always reaches the next one, a    *)
(* controller in Cancelling is eventually NotStarted.                      *)
(***************************************************************************)
C4_CancellationLiveness ==
    \A f \in Flows :
        (codeScanState.codeScanState = CodeScanStatus_Cancelling
           /\ scanPc[f] = "inflight" /\ scanPolls[f])
        ~> codeScanState.codeScanState = CodeScanStatus_NotStarted

\* A driver observed the cancel request, stopped and reset the controller.
C4_Witness ==
    /\ \E f \in Flows : scanOutcome[f] = CodeScanStoppedError_new /\ scanPolls[f]
    /\ LastIsScanCall("setToNotStarted")
    /\ last.pre = CodeScanStatus_Cancelling
    /\ CodeScanState_isNotStarted(codeScanState)

\* The same with any driver in flight, also one that never checks.
C4_AnyDriverLiveness ==
    codeScanState.codeScanState = CodeScanStatus_Cancelling
        ~> codeScanState.codeScanState = CodeScanStatus_NotStarted

(***************************************************************************)
(* C5.  A flow that read isNotStarted() before a suspension point and      *)
(* calls setToRunning() after it is not stopped: whatever happened in      *)
(* between, the call completes, the flow is in flight and the controller   *)
(* is Running.                                                             *)
(***************************************************************************)
C5_StaleStartNotRaised ==
    [][/\ \A f \in Flows :
            (scanPc[f] = "checked" /\ scanPc'[f] # "checked")
              => /\ scanPc'[f] = "inflight"
                 /\ CodeScanState_isRunning(codeScanState')
       /\ \A f \in Flows :
            (transformPc[f] = "checked" /\ transformPc'[f] # "checked")
              => /\ transformPc'[f] = "inflight"
                 /\ TransformByQState_isRunning(transformByQState')
      ]_vars

\* Two scans overlap while the controller shows one Running job.
C5_Witness ==
    /\ Cardinality(InFlightScans) >= 2
    /\ CodeScanState_isRunning(codeScanState)
    /\ LastIsScanCall("setToRunning")
    /\ last.pre = CodeScanStatus_Running

\* Two transform jobs overlap while the controller shows one Running job.
C5_WitnessTransform ==
    /\ Cardinality(InFlightTransforms) >= 2
    /\ TransformByQState_isRunning(transformByQState)
    /\ LastIsTransformCall("setToRunning")
    /\ last.pre = TransformByQStatus_Running

(***************************************************************************)
(* C6.  The transitions the intended use allows: start from NotStarted,    *)
(* cancel a Running scan, end a Running job in a terminal state, reset to  *)
(* NotStarted from any other state.                                        *)
(***************************************************************************)
ScanAllowed ==
    {<<CodeScanStatus_NotStarted, CodeScanStatus_Running>>,
     <<CodeScanStatus_Running, CodeScanStatus_Cancelling>>,
     <<CodeScanStatus_Running, CodeScanStatus_NotStarted>>,
     <<CodeScanStatus_Cancelling, CodeScanStatus_NotStarted>>}

TransformAllowed ==
    {<<TransformByQStatus_NotStarted, TransformByQStatus_Running>>}
    \cup {<<TransformByQStatus_Running, t>> :
            t \in TransformByQStatus \ {TransformByQStatus_Running}}
    \cup {<<t, TransformByQStatus_NotStarted>> :
            t \in TransformByQStatus \ {TransformByQStatus_NotStarted}}

\* The last call was a transition from a state where it is not allowed.
LastIsInvalidScanTransition ==
    /\ last.obj = "scan"
    /\ last.op \in ScanTransitions
    /\ <<last.pre, ScanTargetOf(last.op)>> \notin ScanAllowed

LastIsInvalidTransformTransition ==
    /\ last.obj = "transform"
    /\ last.op \in TransformTransitions
    /\ <<last.pre, TransformTargetOf(last.op)>> \notin TransformAllowed

(***************************************************************************)
(* C6 as claimed: a transition called from a state where it is not allowed *)
(* does not move the controller into the target state.                     *)
(***************************************************************************)
C6_InvalidTransitionsForbidden ==
    /\ LastIsInvalidScanTransition
          => codeScanState.codeScanState # ScanTargetOf(last.op)
    /\ LastIsInvalidTransformTransition
          => transformByQState.transformByQState # TransformTargetOf(last.op)

(***************************************************************************)
(* C6 as amended: nothing forbids an invalid transition; a transition      *)
(* called from a state where it is not allowed moves the controller into   *)
(* the target state all the same.                                          *)
(***************************************************************************)
C6_InvalidTransitionsTaken ==
    /\ LastIsInvalidScanTransition
          => codeScanState.codeScanState = ScanTargetOf(last.op)
    /\ LastIsInvalidTransformTransition
          => transformByQState.transformByQState = TransformTargetOf(last.op)

\* setToSucceeded() was called on a NotStarted transform controller.
C6_Witness ==
    /\ LastIsTransformCall("setToSucceeded")
    /\ last.pre = TransformByQStatus_NotStarted
    /\ TransformByQState_isSucceeded(transformByQState)

\* setToCancelling() was called on a NotStarted scan controller.
C6_WitnessScan ==
    /\ LastIsScanCall("setToCancelling")
    /\ last.pre = CodeScanStatus_NotStarted
    /\ CodeScanState_isCancelling(codeScanState)

(***************************************************************************)
(* C7 as claimed: the transform button label is "Run" exactly in           *)
(* NotStarted and "Stop" in each of the other five states.                 *)
(***************************************************************************)
C7_LabelRunOrStop ==
    LastIsTransformCall("getPrefixTextForButton")
        => /\ last.val = "Run" <=> last.pre = TransformByQStatus_NotStarted
           /\ last.pre # TransformByQStatus_NotStarted => last.val = "Stop"

(***************************************************************************)
(* C7 as amended: the transform button label is "Run" exactly in           *)
(* NotStarted, "Stopping" exactly in Cancelled, and "Stop" in each of the  *)
(* other four states.                                                      *)
(***************************************************************************)
C7_TransformLabel ==
    LastIsTransformCall("getPrefixTextForButton")
        => /\ last.val = "Run" <=> last.pre = TransformByQStatus_NotStarted
           /\ last.val = "Stopping" <=> last.pre = TransformByQStatus_Cancelled
           /\ last.pre \in {TransformByQStatus_Running, TransformByQStatus_Failed,
                            TransformByQStatus_Succeeded,
                            TransformByQStatus_PartiallySucceeded}
                 => last.val = "Stop"

\* The label was asked for in Cancelled.
C7_Witness ==
    /\ LastIsTransformCall("getPrefixTextForButton")
    /\ last.pre = TransformByQStatus_Cancelled
    /\ last.val = "Stopping"

(***************************************************************************)
(* C8.  The transform button icon is vscode-play exactly in NotStarted and *)
(* vscode-stop-circle in each of the other five states.                    *)
(***************************************************************************)
C8_TransformIcon ==
    LastIsTransformCall("getIconForButton")
        => /\ last.val = "vscode-play" <=> last.pre = TransformByQStatus_NotStarted
           /\ last.pre # TransformByQStatus_NotStarted
                 => last.val = "vscode-stop-circle"

\* The icon was asked for in Cancelled, where the label differs from Running's.
C8_Witness ==
    /\ LastIsTransformCall("getIconForButton")
    /\ last.pre = TransformByQStatus_Cancelled
    /\ last.val = "vscode-stop-circle"

(***************************************************************************)
(* C9.  Scan presentation: NotStarted gives "Run" and the start icon,      *)
(* Running gives "Stop" and the stop icon, Cancelling gives "Stopping" and *)
(* the loading-spinner icon; no two states share a label or an icon, and   *)
(* in no reachable state is the label or the icon undefined or empty.      *)
(***************************************************************************)
C9_ScanPresentation ==
    /\ LastIsScanCall("getPrefixTextForButton")
          => /\ last.pre = CodeScanStatus_NotStarted => last.val = "Run"
             /\ last.pre = CodeScanStatus_Running => last.val = "Stop"
             /\ last.pre = CodeScanStatus_Cancelling => last.val = "Stopping"
    /\ LastIsScanCall("getIconForButton")
          => /\ last.pre = CodeScanStatus_NotStarted
                   => last.val = "vscode-debug-alt-small"
             /\ last.pre = CodeScanStatus_Running => last.val = "vscode-stop-circle"
             /\ last.pre = CodeScanStatus_Cancelling
                   => last.val = "vscode-icons:loading~spin"
    /\ CodeScanState_getPrefixTextForButton(codeScanState) \notin {Undefined, ""}
    /\ CodeScanState_getIconForButton(codeScanState) \notin {Undefined, ""}
    /\ \A s \in CodeScanStatus :
          s # codeScanState.codeScanState
            => /\ CodeScanState_getPrefixTextForButton([codeScanState |-> s])
                    # CodeScanState_getPrefixTextForButton(codeScanState)
               /\ CodeScanState_getIconForButton([codeScanState |-> s])
                    # CodeScanState_getIconForButton(codeScanState)

\* The label was asked for in Cancelling.
C9_Witness ==
    /\ LastIsScanCall("getPrefixTextForButton")
    /\ last.pre = CodeScanStatus_Cancelling
    /\ last.val = "Stopping"

(***************************************************************************)
(* C10.  The string metadata of a TransformByQState, read by its getters.  *)
(***************************************************************************)
StringMetadata(this) ==
    {TransformByQState_getProjectName(this),
     TransformByQState_getProjectPath(this),
     TransformByQState_getJobId(this),
     TransformByQState_getPlanFilePath(this),
     TransformByQState_getSummaryFilePath(this),
     TransformByQState_getPolledJobStatus(this),
     TransformByQState_getJobFailureReason(this)}

MetadataFields ==
    {"projectName", "projectPath", "jobId", "sourceJDKVersion", "targetJDKVersion",
     "planFilePath", "summaryFilePath", "polledJobStatus", "jobFailureReason"}

MetadataSetters ==
    {"setProjectName", "setProjectPath", "setJobId", "setSourceJDKVersionToJDK8",
     "setSourceJDKVersionToJDK11", "setTargetJDKVersionToJDK17", "setPlanFilePath",
     "setSummaryFilePath", "setPolledJobStatus", "setJobFailureReason"}

FieldOfSetter(op) ==
    CASE op = "setProjectName" -> "projectName"
      [] op = "setProjectPath" -> "projectPath"
      [] op = "setJobId" -> "jobId"
      [] op = "setSourceJDKVersionToJDK8" -> "sourceJDKVersion"
      [] op = "setSourceJDKVersionToJDK11" -> "sourceJDKVersion"
      [] op = "setTargetJDKVersionToJDK17" -> "targetJDKVersion"
      [] op = "setPlanFilePath" -> "planFilePath"
      [] op = "setSummaryFilePath" -> "summaryFilePath"
      [] op = "setPolledJobStatus" -> "polledJobStatus"
      [] op = "setJobFailureReason" -> "jobFailureReason"

(***************************************************************************)
(* C11.  State transitions never reset or alter transform metadata: every  *)
(* step that is a setTo* call on the transform controller leaves every     *)
(* metadata field as it was (so a job id and a failure reason recorded     *)
(* during a run are still there after setToFailed(), and stay there after  *)
(* a later setToNotStarted() or setToRunning()).                           *)
(***************************************************************************)
C11_TransitionsKeepMetadata ==
    [][(last'.obj = "transform" /\ last'.op \in TransformTransitions)
          => \A field \in MetadataFields :
                transformByQState'[field] = transformByQState[field]
      ]_vars

\* start, setJobId("job-123"), setJobFailureReason("upload rejected"),
\* setToFailed(): Failed, with that reason and that job id.
C11_Witness ==
    /\ LastIsTransformCall("setToFailed")
    /\ last.pre = TransformByQStatus_Running
    /\ TransformByQState_isFailed(transformByQState)
    /\ TransformByQState_getJobFailureReason(transformByQState) = "upload rejected"
    /\ TransformByQState_getJobId(transformByQState) = "job-123"

\* The metadata of the failed job is still there when the next job runs.
C11_WitnessStale ==
    /\ LastIsTransformCall("setToRunning")
    /\ last.pre = TransformByQStatus_NotStarted
    /\ TransformByQState_getJobFailureReason(transformByQState) = "upload rejected"
    /\ TransformByQState_getJobId(transformByQState) = "job-123"

(***************************************************************************)
(* C12.  Metadata field independence: every step that is a call of a       *)
(* metadata setter leaves the job state and every metadata field other     *)
(* than the setter's own as they were, in every state and for every        *)
(* argument.                                                               *)
(***************************************************************************)
C12_SettersAreIndependent ==
    [][(last'.obj = "transform" /\ last'.op \in MetadataSetters)
          => /\ transformByQState'.transformByQState
                  = transformByQState.transformByQState
             /\ \A field \in MetadataFields \ {FieldOfSetter(last'.op)} :
                   transformByQState'[field] = transformByQState[field]
      ]_vars

\* setJobId("job-123") was called on a failed job with a recorded reason.
C12_Witness ==
    /\ LastIsTransformCall("setJobId")
    /\ last.pre = TransformByQStatus_Failed
    /\ TransformByQState_getJobId(transformByQState) = "job-123"
    /\ TransformByQState_getJobFailureReason(transformByQState) = "upload rejected"
    /\ TransformByQState_getProjectName(transformByQState) = "proj"

(***************************************************************************)
(* C13 as the specification states it, on the controllers on which no      *)
(* transition was ever called.  The failure reason is populated only on    *)
(* the transition to Failed: if getJobFailureReason() is non-empty then    *)
(* setToFailed() has been called on the controller, so some transition     *)
(* has been called on it.                                                  *)
(***************************************************************************)
C13_ReasonOnlyAfterFailed ==
    TransformByQState_getJobFailureReason(transformByQState) # ""
        => lastTransformCall # "none"

(***************************************************************************)
(* C13.  The failure reason is populated only by setJobFailureReason(),    *)
(* in whatever job state it is called: no other call, setToFailed()        *)
(* included, changes the failure reason.                                   *)
(***************************************************************************)
C13_ReasonOnlyBySetter ==
    [][transformByQState'.jobFailureReason # transformByQState.jobFailureReason
          => (last'.obj = "transform" /\ last'.op = "setJobFailureReason")
      ]_vars

\* A reason is recorded on a controller on which no transition, and so no
\* setToFailed(), was ever called.
C13_Witness ==
    /\ LastIsTransformCall("setJobFailureReason")
    /\ TransformByQState_getJobFailureReason(transformByQState) = "upload rejected"
    /\ lastTransformCall = "none"
    /\ last.pre = TransformByQStatus_NotStarted

(***************************************************************************)
(* SpecReview: the job-state transitions of the transform controller next  *)
(* to the call path that moves the review status.  TransformByQState has   *)
(* no field for the review status; it is kept outside the controller.      *)
(***************************************************************************)
ReviewSetStatus ==
    \E r \in TransformByQReviewStatus :
        /\ reviewStatus' = r
        /\ last' = [obj |-> "review", op |-> "setReviewStatus",
                    pre |-> reviewStatus, val |-> "void"]
        /\ UNCHANGED <<codeScanState, transformByQState, flows, lastScanCall,
                       lastTransformCall, transformMutated, elsewhere>>

ReviewNext ==
    \/ TransformSetToNotStarted
    \/ TransformSetToRunning
    \/ TransformSetToCancelled
    \/ TransformSetToFailed
    \/ TransformSetToSucceeded
    \/ TransformSetToPartiallySucceeded
    \/ ReviewSetStatus

SpecReview == Init /\ [][ReviewNext]_vars

TransformStopCommand ==
    /\ IF TransformByQState_isRunning(transformByQState)
       THEN /\ transformByQState' = TransformByQState_setToCancelled(transformByQState)
            /\ lastTransformCall' = "setToCancelled"
            /\ transformMutated' = TRUE
            /\ TransformCalled("setToCancelled", "void")
       ELSE /\ TransformCalled("isRunning", FALSE)
            /\ UNCHANGED <<transformByQState, lastTransformCall, transformMutated>>
    /\ UNCHANGED <<transformPc, transformOutcome>>
    /\ TransformFlowFrame

\* A safe point of the transform driver: on observing isCancelled() it stops
\* its work and raises TransformByQStoppedError.
TransformDriverCheckpoint(f) ==
    /\ transformPc[f] = "inflight"
    /\ IF TransformByQState_isCancelled(transformByQState)
       THEN /\ transformPc' = [transformPc EXCEPT ![f] = "done"]
            /\ transformOutcome' = TransformByQStoppedError_new
            /\ TransformCalled("isCancelled", TRUE)
       ELSE /\ TransformCalled("isCancelled", FALSE)
            /\ UNCHANGED <<transformPc, transformOutcome>>
    /\ UNCHANGED <<transformByQState, lastTransformCall, transformMutated>>
    /\ TransformFlowFrame

StopNext ==
    \/ FlowNext
    \/ TransformStopCommand
    \/ \E f \in Flows : TransformDriverCheckpoint(f)

SpecFlowsStop == FlowInit /\ [][StopNext]_vars

\* A stop was requested for the transform job in flight, and its driver has
\* not ended yet.
TransformStopPending ==
    /\ lastTransformCall = "setToCancelled"
    /\ InFlightTransforms # {}

C18_CancelledIffStopped ==
    [][/\ \A f \in Flows :
            (scanPc[f] = "inflight" /\ scanPc'[f] = "idle") =>
                /\ DOMAIN scanOutcome'[f] = {"name", "message", "cancelled"}
                /\ scanOutcome'[f].cancelled
                      <=> scanOutcome'[f].name = "CodeScanStoppedError"
                /\ scanOutcome'[f].cancelled =>
                      /\ scanOutcome'[f].message = "Security scan stopped by user."
                      /\ codeScanState.codeScanState = CodeScanStatus_Cancelling
       /\ \A f \in Flows :
            (transformPc[f] = "inflight" /\ transformPc'[f] = "done") =>
                /\ DOMAIN transformOutcome' = {"name", "message", "cancelled"}
                /\ transformOutcome'.cancelled
                      <=> transformOutcome'.name = "TransformByQStoppedError"
                /\ transformOutcome'.cancelled =>
                      transformOutcome'.message = "Transform by Q stopped by user."
                /\ transformOutcome'.cancelled
                      <=> transformByQState'.transformByQState
                             = TransformByQStatus_Cancelled
      ]_vars

\* One scan was stopped by the user and its caller sees cancelled = true;
\* another ended in a plain failure and its caller does not.
C18_Witness ==
    \E f, g \in Flows :
        /\ scanOutcome[f].name = "CodeScanStoppedError"
        /\ scanOutcome[f].cancelled
        /\ scanOutcome[g].name = "Error"
        /\ ~scanOutcome[g].cancelled

\* The transform driver observed the stop request and raised
\* TransformByQStoppedError.
C18_WitnessTransform ==
    /\ LastIsTransformCall("isCancelled")
    /\ last.val = TRUE
    /\ transformOutcome.name = "TransformByQStoppedError"
    /\ transformOutcome.cancelled

PresentationOps == {"getPrefixTextForButton", "getIconForButton"}

(***************************************************************************)
(* C16.  The presentation mapping is pure and total on both controllers:   *)
(* a call of getPrefixTextForButton() or getIconForButton() changes        *)
(* neither controller (job state and metadata stay as they were), what it  *)
(* returns is what it returns in the same job state with freshly           *)
(* constructed metadata, and it is a non-empty value in every state.       *)
(***************************************************************************)
C16_PresentationPureAndTotal ==
    [][/\ last'.op \in PresentationOps
             => /\ transformByQState' = transformByQState
                /\ codeScanState' = codeScanState
                /\ last'.val \notin {"", Undefined}
       /\ (last'.obj = "transform" /\ last'.op = "getPrefixTextForButton")
             => last'.val = TransformByQState_getPrefixTextForButton(
                                [TransformByQState_new EXCEPT
                                    !.transformByQState = last'.pre])
       /\ (last'.obj = "transform" /\ last'.op = "getIconForButton")
             => last'.val = TransformByQState_getIconForButton(
                                [TransformByQState_new EXCEPT
                                    !.transformByQState = last'.pre])
       /\ (last'.obj = "scan" /\ last'.op = "getPrefixTextForButton")
             => last'.val = CodeScanState_getPrefixTextForButton(
                                [CodeScanState_new EXCEPT !.codeScanState = last'.pre])
       /\ (last'.obj = "scan" /\ last'.op = "getIconForButton")
             => last'.val = CodeScanState_getIconForButton(
                                [CodeScanState_new EXCEPT !.codeScanState = last'.pre])
      ]_vars

\* The label is asked for while a job with recorded metadata is running.
C16_Witness ==
    /\ LastIsTransformCall("getPrefixTextForButton")
    /\ last.pre = TransformByQStatus_Running
    /\ last.val = "Stop"
    /\ TransformByQState_getPolledJobStatus(transformByQState) = "TRANSFORMING"
    /\ TransformByQState_getJobId(transformByQState) = "job-123"

(***************************************************************************)
(* SpecCalls: Spec with the metadata getters called as well, so that every *)
(* public member of the two controllers is called from every reachable     *)
(* state.                                                                  *)
(***************************************************************************)
TransformGetProjectName ==
    TransformQuery("getProjectName", TransformByQState_getProjectName(transformByQState))

TransformGetProjectPath ==
    TransformQuery("getProjectPath", TransformByQState_getProjectPath(transformByQState))

TransformGetJobId ==
    TransformQuery("getJobId", TransformByQState_getJobId(transformByQState))

TransformGetSourceJDKVersion ==
    TransformQuery("getSourceJDKVersion", TransformByQState_getSourceJDKVersion(transformByQState))

TransformGetTargetJDKVersion ==
    TransformQuery("getTargetJDKVersion", TransformByQState_getTargetJDKVersion(transformByQState))

TransformGetStatus ==
    TransformQuery("getStatus", TransformByQState_getStatus(transformByQState))

TransformGetPolledJobStatus ==
    TransformQuery("getPolledJobStatus", TransformByQState_getPolledJobStatus(transformByQState))

TransformGetPlanFilePath ==
    TransformQuery("getPlanFilePath", TransformByQState_getPlanFilePath(transformByQState))

TransformGetSummaryFilePath ==
    TransformQuery("getSummaryFilePath", TransformByQState_getSummaryFilePath(transformByQState))

TransformGetJobFailureReason ==
    TransformQuery("getJobFailureReason", TransformByQState_getJobFailureReason(transformByQState))

GetterNext ==
    \/ TransformGetProjectName
    \/ TransformGetProjectPath
    \/ TransformGetJobId
    \/ TransformGetSourceJDKVersion
    \/ TransformGetTargetJDKVersion
    \/ TransformGetStatus
    \/ TransformGetPolledJobStatus
    \/ TransformGetPlanFilePath
    \/ TransformGetSummaryFilePath
    \/ TransformGetJobFailureReason

CallsNext == Next \/ GetterNext

SpecCalls == Init /\ [][CallsNext]_vars

Predicates ==
    {"isNotStarted", "isRunning", "isCancelling", "isCancelled", "isFailed",
     "isSucceeded", "isPartiallySucceeded"}

StringGetters ==
    {"getProjectName", "getProjectPath", "getJobId", "getSourceJDKVersion",
     "getTargetJDKVersion", "getStatus", "getPolledJobStatus", "getPlanFilePath",
     "getSummaryFilePath", "getJobFailureReason"}

\* What a getter returns on a controller on which nothing was ever set.
InitialValueOf(op) ==
    CASE op = "getSourceJDKVersion" -> JDKVersion_JDK8
      [] op = "getTargetJDKVersion" -> JDKVersion_JDK17
      [] op = "getStatus" -> TransformByQStatus_NotStarted
      [] OTHER -> ""

(***************************************************************************)
(* C17.  The state layer never throws: from every reachable state every    *)
(* predicate, getter, setter and presentation operation can be called and  *)
(* completes with a value of its kind (a setter with no value, a predicate *)
(* with a boolean, a getter or a presentation operation with a defined     *)
(* string), and a metadata getter called before anything was set returns   *)
(* the initial value.                                                      *)
(***************************************************************************)
C17_CallsCompleteNormally ==
    /\ ENABLED ScanSetToNotStarted /\ ENABLED ScanSetToCancelling
    /\ ENABLED ScanSetToRunning
    /\ ENABLED ScanIsNotStarted /\ ENABLED ScanIsRunning /\ ENABLED ScanIsCancelling
    /\ ENABLED ScanGetPrefixTextForButton /\ ENABLED ScanGetIconForButton
    /\ ENABLED TransformSetToNotStarted /\ ENABLED TransformSetToRunning
    /\ ENABLED TransformSetToCancelled /\ ENABLED TransformSetToFailed
    /\ ENABLED TransformSetToSucceeded /\ ENABLED TransformSetToPartiallySucceeded
    /\ \A name \in Names :
          ENABLED TransformSetter("setProjectName",
                      TransformByQState_setProjectName(transformByQState, name))
    /\ \A id \in JobIds :
          ENABLED TransformSetter("setJobId",
                      TransformByQState_setJobId(transformByQState, id))
    /\ \A reason \in Reasons :
          ENABLED TransformSetter("setJobFailureReason",
                      TransformByQState_setJobFailureReason(transformByQState, reason))
    /\ ENABLED TransformSetProjectPath /\ ENABLED TransformSetPlanFilePath
    /\ ENABLED TransformSetSummaryFilePath /\ ENABLED TransformSetPolledJobStatus
    /\ ENABLED TransformSetSourceJDKVersionToJDK8
    /\ ENABLED TransformSetSourceJDKVersionToJDK11
    /\ ENABLED TransformSetTargetJDKVersionToJDK17
    /\ ENABLED TransformIsNotStarted /\ ENABLED TransformIsRunning
    /\ ENABLED TransformIsCancelled /\ ENABLED TransformIsFailed
    /\ ENABLED TransformIsSucceeded /\ ENABLED TransformIsPartiallySucceeded
    /\ ENABLED TransformGetPrefixTextForButton /\ ENABLED TransformGetIconForButton
    /\ ENABLED TransformGetProjectName /\ ENABLED TransformGetProjectPath
    /\ ENABLED TransformGetJobId /\ ENABLED TransformGetSourceJDKVersion
    /\ ENABLED TransformGetTargetJDKVersion /\ ENABLED TransformGetStatus
    /\ ENABLED TransformGetPolledJobStatus /\ ENABLED TransformGetPlanFilePath
    /\ ENABLED TransformGetSummaryFilePath /\ ENABLED TransformGetJobFailureReason
    /\ last.obj \in {"scan", "transform"} =>
          /\ last.op \in ScanTransitions \cup TransformTransitions \cup MetadataSetters
                => last.val = "void"
          /\ last.op \in Predicates => last.val \in BOOLEAN
          /\ last.op \in PresentationOps \cup StringGetters
                => last.val \notin {Undefined, "void"}
          /\ (last.op \in StringGetters /\ ~transformMutated)
                => last.val = InitialValueOf(last.op)

\* The job id is read before any setter was called on the controller.
C17_Witness ==
    /\ LastIsTransformCall("getJobId")
    /\ ~transformMutated
    /\ last.val = ""

(***************************************************************************)
(* SpecDeleteCert: invocations of deleteCertCommand, each on its own       *)
(* certificate node.  The command checks the certificate's status, lists   *)
(* the attached things, asks for confirmation, lists the attached          *)
(* policies, asks again when there are some, deletes and refreshes the     *)
(* parent node.  Each step is one await of the command; what the IoT       *)
(* client and the user answer is chosen at the step.                       *)
(***************************************************************************)
OtherThanDeleteCert ==
    <<codeScanState, transformByQState, flows, last, lastScanCall, lastTransformCall,
      transformMutated, reviewStatus, suggestions, sugCalls, samDebug, scanStopPc,
      sugHistory>>

DeleteCertStep(f, after) ==
    /\ deleteCert' = [deleteCert EXCEPT ![f] = after]
    /\ UNCHANGED OtherThanDeleteCert

DeleteCertCheckStatus(f) ==
    LET c == deleteCert[f] IN
    /\ c.pc = "checkStatus"
    /\ IF c.activeStatus = "ACTIVE"
       THEN DeleteCertStep(f, [c EXCEPT !.pc = "done",
                !.messages = Append(@, "Active certificates cannot be deleted")])
       ELSE DeleteCertStep(f, [c EXCEPT !.pc = "listThings"])

DeleteCertListThings(f) ==
    LET c == deleteCert[f] IN
    /\ c.pc = "listThings"
    /\ \E things \in {"fail", "none", "some"} :
          DeleteCertStep(f, [c EXCEPT
              !.things = things,
              !.pc = IF things = "none" THEN "confirm" ELSE "done",
              !.messages =
                  CASE things = "fail" ->
                         Append(@, "Failed to retrieve Things attached to certificate")
                    [] things = "some" ->
                         Append(@, "Certificate has attached resources")
                    [] OTHER -> @])

DeleteCertConfirm(f) ==
    LET c == deleteCert[f] IN
    /\ c.pc = "confirm"
    /\ \E answer \in {"Delete", "Cancel"} :
          DeleteCertStep(f, [c EXCEPT
              !.confirmed = answer,
              !.pc = IF answer = "Delete" THEN "listPolicies" ELSE "done",
              !.messages = Append(@, "Are you sure you want to delete Certificate?")])

DeleteCertListPolicies(f) ==
    LET c == deleteCert[f] IN
    /\ c.pc = "listPolicies"
    /\ \E policies \in {"fail", "none", "some"} :
          DeleteCertStep(f, [c EXCEPT
              !.policies = policies,
              !.pc = IF policies = "some" THEN "confirmForce" ELSE "delete",
              !.messages =
                  IF policies = "fail"
                  THEN Append(@, "Failed to retrieve policies attached to certificate")
                  ELSE @])

DeleteCertConfirmForce(f) ==
    LET c == deleteCert[f] IN
    /\ c.pc = "confirmForce"
    /\ \E answer \in {"Delete", "Cancel"} :
          DeleteCertStep(f, [c EXCEPT
              !.forceConfirmed = answer,
              !.pc = IF answer = "Delete" THEN "delete" ELSE "done",
              !.messages =
                  Append(@, "Certificate has attached policies. Delete anyway?")])

DeleteCertDelete(f) ==
    LET c == deleteCert[f] IN
    /\ c.pc = "delete"
    /\ \E rejected \in BOOLEAN :
          DeleteCertStep(f, [c EXCEPT
              !.deleteCalls = Append(@, [forceDelete |-> DeleteCert_forceDelete(c)]),
              !.pc = "refresh",
              !.messages = IF rejected
                           THEN Append(@, "Failed to delete certificate")
                           ELSE @])

DeleteCertRefresh(f) ==
    LET c == deleteCert[f] IN
    /\ c.pc = "refresh"
    /\ DeleteCertStep(f, [c EXCEPT !.refreshed = TRUE, !.pc = "done"])

DeleteCertInit ==
    /\ JobsInit
    /\ deleteCert \in [Flows -> {DeleteCert_new(status) : status \in {"ACTIVE", "INACTIVE"}}]
    /\ suggestions = CodeSuggestionsState_new(EmptyMemento, FALSE)
    /\ sugCalls = [f \in Flows |-> NoSuggestionsCall]
    /\ samDebug = NoDebugLookup
    /\ scanStopPc = "idle"
    /\ sugHistory = NoSuggestionsHistory

DeleteCertNext ==
    \/ \E f \in Flows : DeleteCertCheckStatus(f)
    \/ \E f \in Flows : DeleteCertListThings(f)
    \/ \E f \in Flows : DeleteCertConfirm(f)
    \/ \E f \in Flows : DeleteCertListPolicies(f)
    \/ \E f \in Flows : DeleteCertConfirmForce(f)
    \/ \E f \in Flows : DeleteCertDelete(f)
    \/ \E f \in Flows : DeleteCertRefresh(f)

SpecDeleteCert == DeleteCertInit /\ [][DeleteCertNext]_vars

\* Every guard of the invocation has passed.
DeleteCertGuardsPassed(c) ==
    /\ c.activeStatus # "ACTIVE"
    /\ c.things = "none"
    /\ c.confirmed = "Delete"
    /\ c.policies \in {"fail", "none", "some"}
    /\ c.policies = "some" => c.forceConfirmed = "Delete"

(***************************************************************************)
(* C19.  deleteCertCommand deletes only after every guard has passed, in   *)
(* order: deleteCertificate is never called when the certificate is        *)
(* ACTIVE, when listing the attached things fails, when a thing is         *)
(* attached or when the user answers Cancel; when it is called it is       *)
(* called exactly once, with forceDelete = true if and only if attached    *)
(* policies were found and confirmed (false when the policy list is empty  *)
(* or could not be fetched).                                               *)
(***************************************************************************)
C19_DeleteOnlyAfterGuards ==
    \A f \in Flows :
        LET c == deleteCert[f] IN
        /\ Len(c.deleteCalls) <= 1
        /\ (\/ c.activeStatus = "ACTIVE"
            \/ c.things \in {"fail", "some"}
            \/ c.confirmed = "Cancel") => c.deleteCalls = <<>>
        /\ c.things # "unknown" => c.activeStatus # "ACTIVE"
        /\ c.confirmed # "unknown" => c.things = "none"
        /\ c.policies # "unknown" => c.confirmed = "Delete"
        /\ c.forceConfirmed # "unknown" => c.policies = "some"
        /\ c.deleteCalls # <<>> =>
              /\ DeleteCertGuardsPassed(c)
              /\ c.deleteCalls[1].forceDelete
                    <=> (c.policies = "some" /\ c.forceConfirmed = "Delete")
              /\ c.policies \in {"none", "fail"} => ~c.deleteCalls[1].forceDelete
        /\ (c.pc = "done" /\ DeleteCertGuardsPassed(c)) => Len(c.deleteCalls) = 1

\* One invocation force-deleted a certificate with attached policies, and
\* another deleted without force because the policies could not be fetched.
C19_Witness ==
    \E f, g \in Flows :
        /\ deleteCert[f].pc = "done"
        /\ deleteCert[f].deleteCalls = <<[forceDelete |-> TRUE]>>
        /\ deleteCert[g].pc = "done"
        /\ deleteCert[g].policies = "fail"
        /\ deleteCert[g].deleteCalls = <<[forceDelete |-> FALSE]>>

(***************************************************************************)
(* SpecSuggestions: calls on a CodeSuggestionsState instance that do not   *)
(* overlap.  toggleSuggestions() reads the value and computes the value to *)
(* store, suspends on the write, and after the write fires                 *)
(* onDidChangeState and returns.                                           *)
(***************************************************************************)
OtherThanSuggestions ==
    <<codeScanState, transformByQState, flows, last, lastScanCall, lastTransformCall,
      transformMutated, reviewStatus, deleteCert, samDebug, scanStopPc>>

SuggestionsIsEnabled(f) ==
    /\ sugCalls[f].pc = "idle"
    /\ LET isEnabled == CodeSuggestionsState_isSuggestionsEnabled(suggestions) IN
       sugCalls' = [sugCalls EXCEPT ![f] =
                       SuggestionsCall("idle", "isSuggestionsEnabled", FALSE, isEnabled,
                                       isEnabled, 0, <<>>, <<isEnabled>>)]
    /\ UNCHANGED <<suggestions, sugHistory, OtherThanSuggestions>>

SuggestionsToggleBegin(f) ==
    /\ sugCalls[f].pc = "idle"
    /\ LET autoTriggerEnabled == CodeSuggestionsState_isSuggestionsEnabled(suggestions)
           toSet == ~autoTriggerEnabled
       IN  sugCalls' = [sugCalls EXCEPT ![f] =
                           SuggestionsCall("writing", "toggleSuggestions", FALSE,
                                           autoTriggerEnabled, toSet, 0, <<>>, <<>>)]
    /\ UNCHANGED <<suggestions, sugHistory, OtherThanSuggestions>>

SuggestionsSetBegin(f, isEnabled) ==
    /\ sugCalls[f].pc = "idle"
    /\ LET autoTriggerEnabled == CodeSuggestionsState_isSuggestionsEnabled(suggestions)
           toSet == ~autoTriggerEnabled
       IN  IF autoTriggerEnabled # isEnabled
           THEN sugCalls' = [sugCalls EXCEPT ![f] =
                                SuggestionsCall("writing", "setSuggestionsEnabled",
                                                isEnabled, autoTriggerEnabled, toSet,
                                                0, <<>>, <<>>)]
           ELSE sugCalls' = [sugCalls EXCEPT ![f] =
                                SuggestionsCall("idle", "setSuggestionsEnabled",
                                                isEnabled, autoTriggerEnabled,
                                                autoTriggerEnabled, 0, <<>>, <<>>)]
    /\ UNCHANGED <<suggestions, sugHistory, OtherThanSuggestions>>

\* The write of the suspended call takes effect.
SuggestionsWrite(f) ==
    /\ sugCalls[f].pc = "writing"
    /\ suggestions' = [suggestions EXCEPT
                          !.context = Memento_update(@, autoTriggerEnabledKey,
                                                     sugCalls[f].toSet)]
    /\ sugCalls' = [sugCalls EXCEPT ![f].pc = "written", ![f].writes = @ + 1]
    /\ UNCHANGED <<sugHistory, OtherThanSuggestions>>

\* The call resumes after the write: it fires the event and returns.
SuggestionsResume(f) ==
    /\ sugCalls[f].pc = "written"
    /\ sugCalls' = [sugCalls EXCEPT
                       ![f].pc = "idle",
                       ![f].fired = Append(@, sugCalls[f].toSet),
                       ![f].ret = IF sugCalls[f].op = "toggleSuggestions"
                                  THEN <<sugCalls[f].toSet>>
                                  ELSE <<>>]
    /\ sugHistory' = [sugHistory EXCEPT !.oddToggles = ~@]
    /\ UNCHANGED <<suggestions, OtherThanSuggestions>>

NoSuggestionsCallInProgress == \A f \in Flows : sugCalls[f].pc = "idle"

SuggestionsInit ==
    /\ JobsInit
    /\ deleteCert = [f \in Flows |-> DeleteCert_new("INACTIVE")]
    /\ suggestions \in {CodeSuggestionsState_new(context, fallback) :
                           context \in {EmptyMemento}
                                         \cup {Memento_update(EmptyMemento,
                                                   autoTriggerEnabledKey, v) :
                                                   v \in BOOLEAN},
                           fallback \in BOOLEAN}
    /\ sugCalls = [f \in Flows |-> NoSuggestionsCall]
    /\ samDebug = NoDebugLookup
    /\ scanStopPc = "idle"
    /\ sugHistory = [start |-> CodeSuggestionsState_isSuggestionsEnabled(suggestions),
                     oddToggles |-> FALSE]

SequentialNext ==
    \/ \E f \in Flows : NoSuggestionsCallInProgress /\ SuggestionsIsEnabled(f)
    \/ \E f \in Flows : NoSuggestionsCallInProgress /\ SuggestionsToggleBegin(f)
    \/ \E f \in Flows, isEnabled \in BOOLEAN :
          NoSuggestionsCallInProgress /\ SuggestionsSetBegin(f, isEnabled)
    \/ \E f \in Flows : SuggestionsWrite(f)
    \/ \E f \in Flows : SuggestionsResume(f)

SpecSuggestions == SuggestionsInit /\ [][SequentialNext]_vars

\* The stored value when there is one, the constructor's fallback otherwise.
StoredOrFallback(this) ==
    IF autoTriggerEnabledKey \in DOMAIN this.context
    THEN this.context[autoTriggerEnabledKey]
    ELSE this.fallback

(***************************************************************************)
(* C20.  CodeSuggestionsState without overlapping calls.  In the step in   *)
(* which a call returns: isSuggestionsEnabled() has returned the stored    *)
(* value when there is one and the fallback otherwise, and changed         *)
(* nothing; toggleSuggestions() has stored the negation of the value that  *)
(* was there when it was called, fired onDidChangeState once with that new *)
(* value and returned it; setSuggestionsEnabled(b) leaves                  *)
(* isSuggestionsEnabled() = b, and has written and fired (once, with b)    *)
(* only when the value was not b already.                                  *)
(***************************************************************************)
C20_SequentialSuggestions ==
    [][\A f \in Flows :
          LET c == sugCalls'[f] IN
          (c # sugCalls[f] /\ c.pc = "idle") =>
             /\ c.op = "isSuggestionsEnabled" =>
                   /\ c.ret = <<StoredOrFallback(suggestions)>>
                   /\ suggestions' = suggestions
             /\ c.op = "toggleSuggestions" =>
                   /\ autoTriggerEnabledKey \in DOMAIN suggestions'.context
                   /\ suggestions'.context[autoTriggerEnabledKey] = ~c.read
                   /\ c.writes = 1
                   /\ c.fired = <<~c.read>>
                   /\ c.ret = <<~c.read>>
             /\ c.op = "setSuggestionsEnabled" =>
                   /\ StoredOrFallback(suggestions') = c.arg
                   /\ c.ret = <<>>
                   /\ c.read = c.arg => /\ c.writes = 0
                                       /\ c.fired = <<>>
                                       /\ suggestions' = suggestions
                   /\ c.read # c.arg => /\ c.writes = 1
                                       /\ c.fired = <<c.arg>>
      ]_vars

\* A toggle on an instance with nothing stored and fallback true has stored
\* false, fired false and returned false.
C20_Witness ==
    \E f \in Flows :
        /\ sugCalls[f] = SuggestionsCall("idle", "toggleSuggestions", FALSE, TRUE, FALSE,
                                         1, <<FALSE>>, <<FALSE>>)
        /\ suggestions.fallback
        /\ suggestions.context[autoTriggerEnabledKey] = FALSE

\* setSuggestionsEnabled(true) on an instance that is enabled by its fallback
\* alone has done nothing.
C20_WitnessNoChange ==
    \E f \in Flows :
        /\ sugCalls[f] = SuggestionsCall("idle", "setSuggestionsEnabled", TRUE, TRUE, TRUE,
                                         0, <<>>, <<>>)
        /\ suggestions = CodeSuggestionsState_new(EmptyMemento, TRUE)


(***************************************************************************)
(* SpecDebugConfig: lookups on a SAM debug configuration.  The workspace   *)
(* folder, the configuration and the registered templates are the inputs;  *)
(* each action is one call of a function of debugConfiguration.ts on them. *)
(***************************************************************************)
OtherThanSamDebug ==
    <<codeScanState, transformByQState, flows, last, lastScanCall, lastTransformCall,
      transformMutated, reviewStatus, deleteCert, suggestions, sugCalls, scanStopPc,
      sugHistory>>

\* The workspace folders: none, or the folder /ws.
Folders == {<<>>, <<"ws">>}

TemplatePaths == {<<"template.yaml">>, <<"app", "template.yaml">>}

\* The invokeTarget objects: a code target, template targets with and
\* without samTemplateResource, and api targets.
InvokeTargets ==
    {[target |-> "code", projectRoot |-> <<"src">>, lambdaHandler |-> "app.handler"]}
    \cup {[target |-> "template", samTemplatePath |-> path, samTemplateResource |-> name] :
             path \in TemplatePaths, name \in {"MyFn", "Other"}}
    \cup {[target |-> "template", samTemplatePath |-> path] : path \in TemplatePaths}
    \cup {[target |-> "api", samTemplatePath |-> path, samTemplateResource |-> "MyFn"] :
             path \in TemplatePaths}

\* The resources a template holds: without Properties, with CodeUri and
\* Handler, and with a Handler only.
TemplateResources ==
    {[Type |-> "AWS::Serverless::Function"],
     [Type |-> "AWS::Serverless::Function",
      Properties |-> [CodeUri |-> <<"src">>, Handler |-> "app.handler"]],
     [Type |-> "AWS::Serverless::Function",
      Properties |-> [Handler |-> "app.handler"]]}

\* The templates: without Resources, and with a Resources object over some
\* of the names "MyFn" and "undefined".
Templates ==
    {[AWSTemplateFormatVersion |-> "2010-09-09"]}
    \cup {[AWSTemplateFormatVersion |-> "2010-09-09", Resources |-> resources] :
             resources \in UNION {[names -> TemplateResources] :
                                     names \in SUBSET {"MyFn", "undefined"}}}

\* The registries: empty, or with one template registered as /ws/template.yaml.
Registries ==
    {EmptyObject}
    \cup {[path \in {<<"ws", "template.yaml">>} |-> template] : template \in Templates}

DebugGetTemplate ==
    /\ samDebug' = [samDebug EXCEPT
                       !.op = "getTemplate",
                       !.outcome = getTemplate(samDebug.registry, samDebug.folder,
                                               samDebug.config)]
    /\ UNCHANGED OtherThanSamDebug

DebugGetTemplateResource ==
    /\ samDebug' = [samDebug EXCEPT
                       !.op = "getTemplateResource",
                       !.outcome = getTemplateResource(samDebug.registry, samDebug.folder,
                                                       samDebug.config)]
    /\ UNCHANGED OtherThanSamDebug

DebugGetCodeRoot ==
    /\ samDebug' = [samDebug EXCEPT
                       !.op = "getCodeRoot",
                       !.outcome = getCodeRoot(samDebug.registry, samDebug.folder,
                                               samDebug.config)]
    /\ UNCHANGED OtherThanSamDebug

DebugGetHandlerName ==
    /\ samDebug' = [samDebug EXCEPT
                       !.op = "getHandlerName",
                       !.outcome = getHandlerName(samDebug.registry, samDebug.folder,
                                                  samDebug.config)]
    /\ UNCHANGED OtherThanSamDebug

DebugConfigInit ==
    /\ JobsInit
    /\ deleteCert = [f \in Flows |-> DeleteCert_new("INACTIVE")]
    /\ suggestions = CodeSuggestionsState_new(EmptyMemento, FALSE)
    /\ sugCalls = [f \in Flows |-> NoSuggestionsCall]
    /\ samDebug \in {DebugLookup(folder, [invokeTarget |-> invokeTarget], registry,
                                 "none", ReturnedUndefined) :
                        folder \in Folders, invokeTarget \in InvokeTargets,
                        registry \in Registries}
    /\ scanStopPc = "idle"
    /\ sugHistory = NoSuggestionsHistory

DebugConfigNext ==
    \/ DebugGetTemplate
    \/ DebugGetTemplateResource
    \/ DebugGetCodeRoot
    \/ DebugGetHandlerName

SpecDebugConfig == DebugConfigInit /\ [][DebugConfigNext]_vars

\* The template the configuration names is not registered, or has no
\* Resources, or its Resources lack the key the configuration names.
TemplateResourceMissing ==
    LET templateInvoke == samDebug.config.invokeTarget
        fullPath == samDebug.folder \o templateInvoke.samTemplatePath
    IN  \/ fullPath \notin DOMAIN samDebug.registry
        \/ "Resources" \notin DOMAIN samDebug.registry[fullPath]
        \/ samTemplateResourceKey(templateInvoke)
               \notin DOMAIN samDebug.registry[fullPath].Resources

\* C21: getTemplateResource returns undefined exactly when the target is
\* not 'template'.  For a 'template' target it returns the resource stored
\* under samTemplateResource in the Resources of the registered template,
\* or it throws, and it throws exactly when the template is not registered,
\* has no Resources or lacks the key.  getCodeRoot and getHandlerName on a
\* 'template' target then end with the same throw and return nothing.
C21_TemplateResourceOrThrow ==
    LET templateInvoke == samDebug.config.invokeTarget
        outcome == samDebug.outcome
    IN  /\ samDebug.op = "getTemplateResource" =>
              /\ outcome.kind = "undefined" <=> templateInvoke.target # "template"
              /\ templateInvoke.target = "template" =>
                    IF TemplateResourceMissing
                    THEN /\ outcome.kind = "throw"
                         /\ outcome.value \in
                                {"template not found (not registered?)",
                                 "no Resources in template",
                                 "template Resources object does not contain key"}
                    ELSE /\ outcome.kind = "return"
                         /\ outcome.value =
                                samDebug.registry[samDebug.folder
                                                  \o templateInvoke.samTemplatePath]
                                    .Resources[samTemplateResourceKey(templateInvoke)]
        /\ (/\ samDebug.op \in {"getCodeRoot", "getHandlerName"}
            /\ templateInvoke.target = "template"
            /\ TemplateResourceMissing)
              => /\ outcome.kind = "throw"
                 /\ outcome.value \in
                        {"template not found (not registered?)",
                         "no Resources in template",
                         "template Resources object does not contain key"}

\* getCodeRoot on a 'template' target whose registered template lacks the
\* resource ended with the throw of getTemplateResource.
C21_Witness ==
    /\ samDebug.op = "getCodeRoot"
    /\ samDebug.config.invokeTarget.target = "template"
    /\ samDebug.folder \o samDebug.config.invokeTarget.samTemplatePath
           \in DOMAIN samDebug.registry
    /\ samDebug.outcome = Thrown("template Resources object does not contain key")

\* getTemplateResource returned the resource stored under the key.
C21_WitnessReturned ==
    /\ samDebug.op = "getTemplateResource"
    /\ samDebug.outcome.kind = "return"
    /\ "Properties" \in DOMAIN samDebug.outcome.value


(***************************************************************************)
(* The versions of the source and of the target platform.                  *)
(***************************************************************************)
\* The number a JDKVersion value denotes.
JDKVersionNumber(version) ==
    CASE version = "8" -> 8
      [] version = "11" -> 11
      [] version = "17" -> 17

\* C22: in every reachable state of the transformation controller the
\* target version is JDK17 and the source version is JDK8 or JDK11, so the
\* source version is strictly lower than the target version.
C22_SourceBelowTarget ==
    /\ transformByQState.targetJDKVersion = JDKVersion_JDK17
    /\ transformByQState.sourceJDKVersion \in {JDKVersion_JDK8, JDKVersion_JDK11}
    /\ JDKVersionNumber(transformByQState.sourceJDKVersion)
          < JDKVersionNumber(transformByQState.targetJDKVersion)

\* The source version was raised to JDK11 by its setter on a controller
\* that is no longer NotStarted.
C22_Witness ==
    /\ LastIsTransformCall("setSourceJDKVersionToJDK11")
    /\ transformByQState.sourceJDKVersion = JDKVersion_JDK11
    /\ transformByQState.transformByQState # TransformByQStatus_NotStarted


(***************************************************************************)
(* SpecStopRace: the flows that keep the discipline, and beside them a     *)
(* stop command that reads isRunning(), suspends, and calls                *)
(* setToCancelling() when it resumes without reading the state again.      *)
(***************************************************************************)
StopRaceFrame ==
    UNCHANGED <<scanPc, scanPolls, scanOutcome, transformByQState, transformPc,
                transformOutcome, lastTransformCall, transformMutated, reviewStatus,
                deleteCert, suggestions, sugCalls, samDebug, sugHistory>>

ScanStopCheck ==
    /\ scanStopPc = "idle"
    /\ CodeScanState_isRunning(codeScanState)
    /\ scanStopPc' = "checked"
    /\ ScanCalled("isRunning", TRUE)
    /\ UNCHANGED <<codeScanState, lastScanCall>>
    /\ StopRaceFrame

ScanStopResume ==
    /\ scanStopPc = "checked"
    /\ codeScanState' = CodeScanState_setToCancelling(codeScanState)
    /\ scanStopPc' = "idle"
    /\ lastScanCall' = "setToCancelling"
    /\ ScanCalled("setToCancelling", "void")
    /\ StopRaceFrame

StopRaceNext ==
    \/ FlowNext
    \/ ScanStopCheck
    \/ ScanStopResume

SpecStopRace == FlowInit /\ [][StopRaceNext]_vars

\* The scan controller is in Cancelling and no scan driver is in flight to
\* acknowledge the request.
CancellingUnacknowledgeable ==
    /\ codeScanState.codeScanState = CodeScanStatus_Cancelling
    /\ InFlightScans = {}

\* C23: with a stop command that checks isRunning() and calls
\* setToCancelling() in one step, and drivers that call setToNotStarted()
\* when their scan ends, the scan controller is in Cancelling only while a
\* driver is in flight.  The only step that leaves it in Cancelling with no
\* driver in flight is the setToCancelling() of a stop command that
\* suspended after its check.
C23_CancellingOnlyWhileInFlight ==
    [][(CancellingUnacknowledgeable' /\ ~CancellingUnacknowledgeable)
          => (scanStopPc = "checked" /\ scanStopPc' = "idle")]_vars

\* A stop command that suspended after its check left the controller in
\* Cancelling, labelled "Stopping", with no driver in flight.
C23_Witness ==
    /\ CancellingUnacknowledgeable
    /\ LastIsScanCall("setToCancelling")
    /\ CodeScanState_getPrefixTextForButton(codeScanState) = "Stopping"

\* The stop command that does not suspend made its request while a driver
\* was in flight.
C23_WitnessInFlight ==
    /\ codeScanState.codeScanState = CodeScanStatus_Cancelling
    /\ InFlightScans # {}
    /\ scanStopPc = "idle"


(***************************************************************************)
(* SpecOverlap: calls on the CodeSuggestionsState instance that overlap.   *)
(* A caller may begin a call while the call of another is suspended on its *)
(* write or has written and not yet resumed.                               *)
(***************************************************************************)
OverlapNext ==
    \/ \E f \in Flows : SuggestionsIsEnabled(f)
    \/ \E f \in Flows : SuggestionsToggleBegin(f)
    \/ \E f \in Flows, isEnabled \in BOOLEAN : SuggestionsSetBegin(f, isEnabled)
    \/ \E f \in Flows : SuggestionsWrite(f)
    \/ \E f \in Flows : SuggestionsResume(f)

SpecOverlap == SuggestionsInit /\ [][OverlapNext]_vars

\* The value k completed toggleSuggestions() calls would leave, were each
\* of them one flip of the value the instance started with.
FlippedFromStart == sugHistory.start # sugHistory.oddToggles

\* C24: under any interleaving of overlapping toggleSuggestions() and
\* setSuggestionsEnabled() calls, in the step in which a call fires
\* onDidChangeState with value v the value isSuggestionsEnabled() reads is
\* v, and once the calls have completed the value is the starting value
\* flipped once per completed toggleSuggestions() call.
C24_OverlappingCallsConsistent ==
    [][/\ \A f \in Flows :
             (sugCalls[f].pc = "written" /\ sugCalls'[f].pc = "idle")
                => sugCalls[f].toSet = StoredOrFallback(suggestions')
       /\ (\A f \in Flows : sugCalls'[f].pc = "idle")
             => StoredOrFallback(suggestions') = FlippedFromStart']_vars

\* Two toggleSuggestions() calls that both read the starting value have
\* completed and the value is flipped once.
C24_Witness ==
    /\ \A f \in Flows : /\ sugCalls[f].pc = "idle"
                        /\ sugCalls[f].op = "toggleSuggestions"
                        /\ sugCalls[f].read = sugHistory.start
                        /\ Len(sugCalls[f].fired) = 1
    /\ ~sugHistory.oddToggles
    /\ StoredOrFallback(suggestions) # sugHistory.start

====
